---- MODULE Spec2Model ----
(***************************************************************************)
(* A state-machine model of the EMSG client SDK: the delivery tracker      *)
(* (delivery/delivery.go), the group state model (groups), the send        *)
(* pipeline of the client facade with its HTTP retry loop                  *)
(* (client/client.go), the WebSocket transport (websocket/websocket.go),   *)
(* the notification manager and the message poller (package                *)
(* notifications), the cached resolver (package dns), the message builder  *)
(* with encryption (message/message.go, encryption/encryption.go).         *)
(*                                                                         *)
(* Each subsystem has its own specifications over the shared variables:    *)
(*   SpecDelivery  - TrackMessage / UpdateDeliveryStatus / clock           *)
(*   SpecGroups    - CreateGroup / DeleteGroup / AddMember / RemoveMember  *)
(*                   / ChangeRole                                          *)
(*   SpecSend      - Client.SendMessage, step by step                      *)
(*   FairSpecSend  - SpecSend with a fair HTTP retry loop                  *)
(*   SpecRetryDelay - calculateDelay / waitBeforeRetry of one request      *)
(*   SpecTransportSend, SpecTransportReceive, SpecConnection - the         *)
(*                   transport with its send path, its receive path, its   *)
(*                   connection state alone                                *)
(*   SpecDispatch, SpecWorkerPool - Notify with its synchronous handlers,  *)
(*                   the pool of asynchronous handlers                     *)
(*   SpecPoller    - MessagePoller Start / Stop / pollLoop                 *)
(*   SpecPollArrivals - the same, with the instant of each fetch followed  *)
(*   SpecResolver  - CachedResolver.ResolveDomain / clock                  *)
(*   SpecCallbacks - the tracker with RegisterCallback and the goroutines  *)
(*                   of triggerCallbacks                                   *)
(*   SpecPendingRetries - the tracker with GetPendingRetries, the instants *)
(*                   of tracking and scheduling followed in ticks          *)
(*   SpecEncryption - MessageBuilder.Build, then DecryptBody by recipients *)
(*   FairSpecGroupLock - goroutines calling the methods of one group, and  *)
(*                   how these take Group.mutex                            *)
(*   SpecTransportEvents - SpecConnection with the triggered events        *)
(*                   followed                                              *)
(*   SpecRetrySchedule - the tracker made with any of a set of retry       *)
(*                   strategies, one message sent and retried              *)
(*   SpecConcurrentLookups - goroutines calling ResolveDomain on one       *)
(*                   cached resolver, access by access to its map          *)
(* A specification leaves the variables of the other subsystems at their   *)
(* initial values.                                                         *)
(***************************************************************************)
EXTENDS Integers, Sequences, FiniteSets, TLC

VARIABLES
    receipts,        \* DeliveryTracker.receipts: message id -> receipt
    now,             \* the wall clock, in ticks
    expirationTime,  \* RetryStrategy.ExpirationTime of the tracker, in ticks
    strategy,        \* the other fields of the tracker's RetryStrategy
    dlast,           \* the last tracker call: its arguments, the status and count before it
    callbacks,       \* DeliveryTracker.callbacks: message id or "*" -> slice of callbacks
    trigger,         \* the triggerCallbacks call in progress or last made
    ktasks,          \* the goroutines running a delivery callback
    groups,          \* GroupManager.groups: group id -> group
    glast,           \* the last group call: its arguments, the roles before it, its result
    cfg,             \* the Config the client was built with
    send,            \* the SendMessage call in progress: its position and locals
    log,             \* what the current SendMessage call has done so far, in order
    result,          \* what the last finished SendMessage call returned
    retry,           \* the HTTP retry strategy of a client and the waits of one request
    ws,              \* WebSocketClient: flags, context, connection, strategy, counters
    tasks,           \* the goroutines of the transport that are running
    sendChan,        \* WebSocketClient.sendChan
    receiveChan,     \* WebSocketClient.receiveChan
    wire,            \* the frames written to the connections, in order
    dispatched,      \* the incoming frames given to the notification manager, in order
    wlast,           \* the last transport call: the state before it and its result
    nm,              \* NotificationManager: handler lists, context, worker pool
    ncalls,          \* the Notify calls made so far, in order
    atasks,          \* the goroutines running executeAsyncHandler
    poller,          \* MessagePoller: running, context, lastPollTime, counters
    loops,           \* the goroutines running pollLoop
    inbox,           \* the messages the server holds for the polled address
    emitted,         \* the messages NotifyMessageReceived was called for, in order
    plast,           \* the last poller call: running before it and its result
    cache,           \* CachedResolver.cache: domain -> entry
    defaultTTL,      \* CachedResolver.defaultTTL, in ticks
    clast,           \* the last cached lookup: the entry before it, what it did and returned
    sched,           \* per message id, the instants in ticks of its tracking and of its next attempt
    pend,            \* what the last GetPendingRetries call returned
    builder,         \* MessageBuilder: its message, its encryption manager, what Build returned
    opened,          \* the last DecryptBody call: who made it and what it returned
    gmutex,          \* Group.mutex of one group: the writer that holds it, the number of readers
    gstack,          \* per goroutine, the calls on the group it is in, innermost last
    wtrace,          \* the events the transport has triggered, in order, and the connections lost
    lookups          \* the ResolveDomain calls of concurrent goroutines on one cached resolver

kvars == <<callbacks, trigger, ktasks>>
dvars == <<receipts, now, expirationTime, strategy, dlast, kvars>>
gvars == <<groups, glast>>
svars == <<cfg, send, log, result>>
rvars == <<retry>>
wvars == <<ws, tasks, sendChan, receiveChan, wire, dispatched, wlast>>
nvars == <<nm, ncalls, atasks>>
pvars == <<poller, loops, inbox, emitted, plast>>
(* the variables of the subsystems other than tracker, groups and send *)
cvars == <<cache, defaultTTL, clast>>
(* the variables of the subsystems after the poller *)
hvars == <<sched, pend>>
evars == <<builder, opened>>
(* the variables of the subsystems after the tracker's instants *)
lvars == <<gmutex, gstack>>
tvars == <<wtrace>>
qvars == <<lookups>>
zvars == <<evars, lvars, tvars, qvars>>
(* what a transport step that triggers an event leaves alone *)
uvars == <<dvars, gvars, svars, rvars, nvars, pvars, cvars, hvars, evars, lvars, qvars>>
yvars == <<cvars, hvars, zvars>>
(* the subsystems the tracker does not touch *)
ovars == <<rvars, wvars, nvars, pvars, cvars, zvars>>
xvars == <<rvars, wvars, nvars, pvars, yvars>>
vars == <<receipts, now, expirationTime, strategy, dlast, callbacks, trigger, ktasks, groups, glast, cfg, send, log, result,
          retry, ws, tasks, sendChan, receiveChan, wire, dispatched, wlast,
          nm, ncalls, atasks, poller, loops, inbox, emitted, plast,
          cache, defaultTTL, clast, sched, pend, builder, opened, gmutex, gstack, wtrace, lookups>>

----------------------------------------------------------------------------
(* Bounds of the model *)

MaxTime == 3
MaxAttempts == 2
MaxMembersBound == 3
MaxRetriesBound == 2

(* HTTP retry strategies: delays in seconds *)
MaxInitialDelay == 2
MaxDelayBound == 10
MaxBackoffFactor == 3
MaxBackoffRetries == 5

(* Transport: connections opened, frames accepted, written and received in *)
(* one run, retries of a reconnect strategy                                 *)
MaxConnections == 2
MaxFrames == 2
MaxWritten == 2
MaxReceived == 2
MaxReconnectRetries == 2

(* Notification manager: synchronous and asynchronous handlers registered,  *)
(* Notify calls, Notify calls when the synchronous handlers are followed,   *)
(* worker pool size; message poller: Start calls that launch a loop,        *)
(* messages arriving                                                        *)
MaxSyncHandlers == 2
MaxAsyncHandlers == 1
MaxNotifies == 2
MaxDispatches == 1
MaxConcurrentHandlers == 1
MaxStarts == 3
MaxInbox == 2

(* Cached resolver: the TTL a resolver is configured with, in ticks *)
MaxTTL == 2

(* Delivery callbacks: callbacks registered, updates that trigger callbacks *)
MaxCallbacks == 5
MaxTriggers == 1
MaxTo == 2
MaxCC == 1

(* Clock resolution: time.Now().Unix() truncates the clock to whole seconds *)
TicksPerSecond == 2

----------------------------------------------------------------------------
(* Delivery tracker: src/delivery/delivery.go *)

StatusPending == "pending"
StatusSent == "sent"
StatusDelivered == "delivered"
StatusFailed == "failed"
StatusRetrying == "retrying"
StatusExpired == "expired"

DeliveryStatus ==
    {StatusPending, StatusSent, StatusDelivered, StatusFailed, StatusRetrying, StatusExpired}

MsgIds == {"m1", "m2"}

(* error texts: "" is the empty string of a call without an error *)
ErrorTexts == {"", "timeout"}

(* retry strategy of the tracker, in ticks (DefaultRetryStrategy scaled) *)
DeliveryMaxRetries == 2
DeliveryInitialDelay == 1
DeliveryMaxDelay == 3
DeliveryBackoffFactor == 2

(* DefaultRetryStrategy(): what NewDeliveryTracker(nil) takes *)
DefaultRetryStrategy ==
    [maxRetries |-> DeliveryMaxRetries, initialDelay |-> DeliveryInitialDelay,
     maxDelay |-> DeliveryMaxDelay, backoffFactor |-> DeliveryBackoffFactor]

(* ExpirationTime values a tracker is configured with: the zero value of   *)
(* the field and a whole second                                            *)
ExpirationTimes == {0, TicksPerSecond}

(* DefaultRetryStrategy().ExpirationTime, 24 hours: longer than any run of the model *)
DefaultExpirationTime == 24 * 3600 * TicksPerSecond

RECURSIVE Pow(_, _)
Pow(b, e) == IF e <= 0 THEN 1 ELSE b * Pow(b, e - 1)

(* the clock reads 0 one second after 1970-01-01: a Unix time of 0 in a     *)
(* receipt is a field that was never set, as the code takes it              *)
Epoch == TicksPerSecond

(* time.Time.Unix(): whole seconds *)
Unix(t) == (Epoch + t) \div TicksPerSecond

(* time.Since(time.Unix(ts, 0)) at clock t *)
SinceUnix(ts, t) == (Epoch + t) - ts * TicksPerSecond

(* a message id without a receipt *)
NoReceipt ==
    [status |-> "none", timestamp |-> 0, attemptCount |-> 0, lastAttempt |-> 0,
     nextAttempt |-> 0, errorMessage |-> ""]

(* DeliveryReceipt.IsTerminal *)
IsTerminal(status) == status \in {StatusDelivered, StatusFailed, StatusExpired}

(* calculateRetryDelay without the cap *)
calculateRetryDelay_Uncapped(attemptCount) ==
    strategy.initialDelay * Pow(strategy.backoffFactor, attemptCount - 1)

(* DeliveryTracker.calculateRetryDelay *)
calculateRetryDelay(attemptCount) ==
    LET delay == strategy.initialDelay * Pow(strategy.backoffFactor, attemptCount - 1)
    IN  IF delay > strategy.maxDelay THEN strategy.maxDelay ELSE delay

(* the receipt TrackMessage stores *)
NewReceipt(t) ==
    [status |-> StatusPending, timestamp |-> Unix(t), attemptCount |-> 0,
     lastAttempt |-> 0, nextAttempt |-> 0, errorMessage |-> ""]

(* an update that counts an attempt whatever the requested status *)
UpdatedReceipt_CountAll(r, status, errorMsg, t, exp) ==
    LET r1 == [r EXCEPT !.status = status, !.timestamp = Unix(t),
                        !.attemptCount = r.attemptCount + 1, !.lastAttempt = Unix(t)]
        r2 == IF errorMsg # "" THEN [r1 EXCEPT !.errorMessage = errorMsg] ELSE r1
        r3 == IF status = StatusRetrying /\ r2.attemptCount < strategy.maxRetries
              THEN [r2 EXCEPT !.nextAttempt = Unix(t + calculateRetryDelay(r2.attemptCount))]
              ELSE r2
    IN  IF SinceUnix(r3.timestamp, t) > exp
        THEN [r3 EXCEPT !.status = StatusExpired]
        ELSE r3

(* the receipt UpdateDeliveryStatus leaves for receipt r, requested status, *)
(* error text, clock t and expiration time exp                              *)
UpdatedReceipt(r, status, errorMsg, t, exp) ==
    LET r1 == [r EXCEPT !.status = status, !.timestamp = Unix(t)]
        r2 == IF errorMsg # "" THEN [r1 EXCEPT !.errorMessage = errorMsg] ELSE r1
        r3 == IF status \in {StatusSent, StatusRetrying}
              THEN LET cnt == r2.attemptCount + 1
                       r3a == [r2 EXCEPT !.attemptCount = cnt, !.lastAttempt = Unix(t)]
                   IN  IF status = StatusRetrying /\ cnt < strategy.maxRetries
                       THEN [r3a EXCEPT !.nextAttempt = Unix(t + calculateRetryDelay(cnt))]
                       ELSE r3a
              ELSE r2
    IN  IF SinceUnix(r3.timestamp, t) > exp
        THEN [r3 EXCEPT !.status = StatusExpired]
        ELSE r3

NoCall == [op |-> "none", id |-> "none", req |-> "none", old |-> "none", oldCount |-> 0]

(* NewDeliveryTracker: no receipts *)
(* the keys of DeliveryTracker.callbacks: a message id, "*" for all *)
CallbackKeys == MsgIds \cup {"*"}

(* a nil slice of callbacks: no elements, no capacity *)
NoCallbacks == [items |-> <<>>, cap |-> 0]

NoTrigger ==
    [id |-> "none", n |-> 0, pc |-> "done", expected |-> <<>>, list |-> <<>>,
     shared |-> FALSE, launched |-> <<>>]

(* the capacity of a full slice of callbacks after append of one element:   *)
(* the runtime doubles a small slice, 0 -> 1 -> 2 -> 4 -> 8                  *)
GrownCap(cap) == IF cap = 0 THEN 1 ELSE 2 * cap

(* NewDeliveryTracker: no receipts, no callbacks *)
TrackerInit ==
    /\ receipts = [m \in MsgIds |-> NoReceipt]
    /\ now = 0
    /\ dlast = NoCall
    /\ callbacks = [k \in CallbackKeys |-> NoCallbacks]
    /\ trigger = NoTrigger
    /\ ktasks = {}

(* the number of callbacks registered so far: callbacks are numbered as     *)
(* they are registered                                                      *)
RECURSIVE CallbackCount(_)
CallbackCount(keys) ==
    IF keys = {} THEN 0
    ELSE LET k == CHOOSE x \in keys : TRUE
         IN  Len(callbacks[k].items) + CallbackCount(keys \ {k})

(* "dt.callbacks[key] = append(dt.callbacks[key], callback)", under         *)
(* callbackMutex: with spare capacity the element is written into the array *)
(* the slice already has, which is also the array of the slice a running    *)
(* triggerCallbacks made from it when its append found room; without, the   *)
(* slice moves to a new array                                               *)
AppendCallback(key) ==
    LET old == callbacks[key]
        c == CallbackCount(CallbackKeys) + 1
        at == Len(old.items) + 1
        aliased == trigger.pc = "loop" /\ trigger.shared /\ trigger.id = key
    IN  /\ c <= MaxCallbacks
        /\ IF Len(old.items) < old.cap
           THEN /\ callbacks' = [callbacks EXCEPT ![key].items = Append(old.items, c)]
                /\ trigger' = IF aliased /\ at <= Len(trigger.list)
                              THEN [trigger EXCEPT !.list[at] = c]
                              ELSE trigger
           ELSE /\ callbacks' = [callbacks EXCEPT ![key] =
                                    [items |-> Append(old.items, c), cap |-> GrownCap(old.cap)]]
                /\ trigger' = IF aliased THEN [trigger EXCEPT !.shared = FALSE] ELSE trigger
        /\ UNCHANGED <<receipts, now, expirationTime, strategy, dlast, ktasks>>
        /\ UNCHANGED <<gvars, svars, xvars>>

(* DeliveryTracker.RegisterCallback *)
RegisterCallback(m) == AppendCallback(m)

(* DeliveryTracker.RegisterGlobalCallback *)
RegisterGlobalCallback == AppendCallback("*")

(* triggerCallbacks, "callbacks := append(dt.callbacks[messageID],          *)
(* dt.callbacks["*"]...)": the slice the loop ranges over, and whether it    *)
(* has the array of dt.callbacks[messageID] (the global callbacks found     *)
(* room in it)                                                              *)
TriggerList(m) == callbacks[m].items \o callbacks["*"].items

TriggerShares(m) ==
    /\ callbacks["*"].items # <<>>
    /\ Len(TriggerList(m)) <= callbacks[m].cap

(* UpdateDeliveryStatus, "if oldStatus != receipt.Status {                  *)
(* dt.triggerCallbacks(messageID, receipt) }": triggerCallbacks up to its   *)
(* loop; with no callback to call it is over at once                        *)
TriggerAfter(m, old, new) ==
    IF old # NoReceipt /\ old.status # new.status /\ TriggerList(m) # <<>>
    THEN trigger' = [id |-> m, n |-> trigger.n + 1, pc |-> "loop",
                     expected |-> TriggerList(m), list |-> TriggerList(m),
                     shared |-> TriggerShares(m), launched |-> <<>>]
    ELSE UNCHANGED trigger

(* dt.mutex is free: no UpdateDeliveryStatus is inside triggerCallbacks *)
TrackerFree == trigger.pc # "loop"

(* the instants the tracker rounds to whole seconds, kept in ticks where a   *)
(* specification follows them: when the receipt of m was created ...        *)
Created(m) ==
    IF sched.on THEN [sched EXCEPT !.created[m] = now, !.due[m] = 0] ELSE sched

(* ... and, UpdateDeliveryStatus "time.Now().Add(delay)", for when its next *)
(* attempt was scheduled                                                    *)
Scheduled(m, status) ==
    IF /\ sched.on
       /\ receipts[m] # NoReceipt
       /\ status = StatusRetrying
       /\ receipts[m].attemptCount + 1 < strategy.maxRetries
    THEN [sched EXCEPT !.due[m] = now + calculateRetryDelay(receipts[m].attemptCount + 1)]
    ELSE sched

(* DeliveryTracker.TrackMessage *)
TrackMessage(m) ==
    /\ TrackerFree
    /\ receipts' = [receipts EXCEPT ![m] = NewReceipt(now)]
    /\ dlast' = [op |-> "track", id |-> m, req |-> "none", old |-> receipts[m].status,
                 oldCount |-> receipts[m].attemptCount]
    /\ sched' = Created(m)
    /\ UNCHANGED <<now, expirationTime, strategy, kvars, pend>>
    /\ UNCHANGED <<gvars, svars, ovars>>

(* DeliveryTracker.UpdateDeliveryStatus *)
UpdateDeliveryStatus(m, status, errorMsg) ==
    /\ TrackerFree
    /\ status \in {StatusSent, StatusRetrying} => receipts[m].attemptCount < MaxAttempts
    /\ IF receipts[m] = NoReceipt
       THEN UNCHANGED receipts
       ELSE receipts' = [receipts EXCEPT
                ![m] = UpdatedReceipt(receipts[m], status, errorMsg, now, expirationTime)]
    /\ TriggerAfter(m, receipts[m], receipts'[m])
    /\ dlast' = [op |-> "update", id |-> m, req |-> status, old |-> receipts[m].status,
                 oldCount |-> receipts[m].attemptCount]
    /\ sched' = Scheduled(m, status)
    /\ UNCHANGED <<now, expirationTime, strategy, callbacks, ktasks, pend>>
    /\ UNCHANGED <<gvars, svars, ovars>>

(* the receipts DeliveryTracker.GetPendingRetries collects at clock t *)
PendingRetries(t) ==
    {m \in MsgIds :
        /\ receipts[m] # NoReceipt
        /\ receipts[m].status = StatusRetrying
        /\ receipts[m].nextAttempt > 0
        /\ receipts[m].nextAttempt <= Unix(t)
        /\ receipts[m].attemptCount < strategy.maxRetries
        /\ SinceUnix(receipts[m].timestamp, t) <= expirationTime}

(* DeliveryTracker.GetPendingRetries *)
GetPendingRetries ==
    /\ TrackerFree
    /\ pend' = [seq |-> 1 - pend.seq, result |-> PendingRetries(now)]
    /\ UNCHANGED <<receipts, now, expirationTime, strategy, dlast, kvars, sched>>
    /\ UNCHANGED <<gvars, svars, ovars>>

(* triggerCallbacks, "defer func() { if r := recover(); r != nil {} }()" *)
Recovered == TRUE

(* triggerCallbacks, one round of "for _, callback := range callbacks { go  *)
(* func(cb DeliveryCallback) {...}(callback) }": the element is read from   *)
(* the array and a goroutine is started with it; after the last round       *)
(* triggerCallbacks and UpdateDeliveryStatus return                         *)
TriggerLaunch ==
    /\ trigger.pc = "loop"
    /\ LET i == Len(trigger.launched) + 1
           cb == trigger.list[i]
       IN  /\ trigger' = [trigger EXCEPT !.launched = Append(trigger.launched, cb),
                                         !.pc = IF i = Len(trigger.list) THEN "done"
                                                ELSE "loop"]
           /\ ktasks' = ktasks \cup {[cb |-> cb, n |-> trigger.n]}
    /\ UNCHANGED <<receipts, now, expirationTime, strategy, dlast, callbacks>>
    /\ UNCHANGED <<gvars, svars, xvars>>

(* the goroutine of a callback ends: the callback returned, or it panicked  *)
(* and the deferred recover took the panic; a panic that is not recovered   *)
(* ends the process                                                         *)
CallbackEnds(t, panics) ==
    /\ t \in ktasks
    /\ trigger.pc # "crashed"
    /\ ktasks' = ktasks \ {t}
    /\ trigger' = IF panics /\ ~Recovered THEN [trigger EXCEPT !.pc = "crashed"] ELSE trigger
    /\ UNCHANGED <<receipts, now, expirationTime, strategy, dlast, callbacks>>
    /\ UNCHANGED <<gvars, svars, xvars>>

(* the clock advances *)
Tick ==
    /\ now < MaxTime
    /\ now' = now + 1
    /\ UNCHANGED <<receipts, expirationTime, strategy, dlast, kvars>>
    /\ UNCHANGED <<gvars, svars, xvars>>

(* the tracker with its callbacks: one message is tracked and updated,      *)
(* callbacks are registered by other goroutines meanwhile                   *)
CallbacksNext ==
    \/ \E m \in MsgIds : RegisterCallback(m)
    \/ RegisterGlobalCallback
    \/ TrackMessage("m1")
    \/ \E s \in {StatusSent, StatusDelivered} :
          trigger.n < MaxTriggers /\ UpdateDeliveryStatus("m1", s, "")
    \/ TriggerLaunch
    \/ \E t \in ktasks, panics \in BOOLEAN : CallbackEnds(t, panics)

(* the tracker and the clock as the retry loop of a caller sees them, for   *)
(* one message: the instants of tracking and scheduling are followed        *)
PendingNext ==
    \/ TrackMessage("m1")
    \/ \E s \in DeliveryStatus : UpdateDeliveryStatus("m1", s, "")
    \/ GetPendingRetries
    \/ Tick

(* the retry strategies a tracker is made with, NewDeliveryTracker(s): in   *)
(* ticks, with whole backoff factors                                        *)
TrackerStrategies ==
    [maxRetries : 1..(MaxAttempts + 1), initialDelay : 1..MaxInitialDelay,
     maxDelay : 1..DeliveryMaxDelay, backoffFactor : 1..MaxBackoffFactor]

(* the tracker with one message that is sent and retried *)
ScheduleNext ==
    \/ TrackMessage("m1")
    \/ \E s \in {StatusSent, StatusRetrying} : UpdateDeliveryStatus("m1", s, "")
    \/ Tick

(* the tracker with two messages and the clock: the first message gets     *)
(* every update, the second, which is there to show that receipts do not    *)
(* touch each other, the updates of a delivery that goes well or is retried *)
DeliveryNext ==
    \/ \E m \in MsgIds : TrackMessage(m)
    \/ \E s \in DeliveryStatus, e \in ErrorTexts : UpdateDeliveryStatus("m1", s, e)
    \/ \E s \in {StatusSent, StatusRetrying, StatusDelivered} : UpdateDeliveryStatus("m2", s, "")
    \/ Tick


----------------------------------------------------------------------------
(* Groups: src/unnamed/part_007 (package groups)                            *)
(*                                                                         *)
(* AddMember, RemoveMember and ChangeRole run their whole body under        *)
(* g.mutex, CreateGroup and DeleteGroup under GroupManager.mutex: each is   *)
(* one atomic step here.  SpecGroups models what the bodies check and       *)
(* change; how the locks are acquired is not part of it.  Of a member only  *)
(* the role is kept: no operation reads JoinedAt, InvitedBy, Nickname or    *)
(* Status.                                                                  *)

RoleOwner == "owner"
RoleAdmin == "admin"
RoleModerator == "moderator"
RoleMember == "member"
RoleGuest == "guest"

GroupRole == {RoleOwner, RoleAdmin, RoleModerator, RoleMember, RoleGuest}

PermissionSendMessage == "send_message"
PermissionDeleteMessage == "delete_message"
PermissionAddMember == "add_member"
PermissionRemoveMember == "remove_member"
PermissionChangeRole == "change_role"
PermissionManageGroup == "manage_group"
PermissionViewMembers == "view_members"
PermissionViewHistory == "view_history"
PermissionCreateSubgroup == "create_subgroup"
PermissionDeleteGroup == "delete_group"

GroupIds == {"g1"}
Addresses == {"u1", "u2", "u3"}

(* the role of an address that is not in Group.Members *)
NotMember == "none"

(* DefaultGroupSettings().Permissions *)
DefaultPermissions ==
    [r \in GroupRole |->
        CASE r = RoleOwner ->
                {PermissionSendMessage, PermissionDeleteMessage, PermissionAddMember,
                 PermissionRemoveMember, PermissionChangeRole, PermissionManageGroup,
                 PermissionViewMembers, PermissionViewHistory, PermissionCreateSubgroup,
                 PermissionDeleteGroup}
          [] r = RoleAdmin ->
                {PermissionSendMessage, PermissionDeleteMessage, PermissionAddMember,
                 PermissionRemoveMember, PermissionChangeRole, PermissionManageGroup,
                 PermissionViewMembers, PermissionViewHistory, PermissionCreateSubgroup}
          [] r = RoleModerator ->
                {PermissionSendMessage, PermissionDeleteMessage, PermissionAddMember,
                 PermissionViewMembers, PermissionViewHistory}
          [] r = RoleMember ->
                {PermissionSendMessage, PermissionViewMembers, PermissionViewHistory}
          [] OTHER -> {PermissionViewHistory}]

(* a permission matrix a caller of CreateGroup passes in its settings: it   *)
(* has no entry for member and hands the member operations to low roles     *)
CustomPermissions ==
    [r \in GroupRole |->
        CASE r = RoleOwner ->
                {PermissionAddMember, PermissionRemoveMember, PermissionChangeRole,
                 PermissionDeleteGroup}
          [] r = RoleAdmin -> {PermissionAddMember, PermissionRemoveMember, PermissionChangeRole}
          [] r = RoleModerator ->
                {PermissionAddMember, PermissionRemoveMember, PermissionChangeRole,
                 PermissionDeleteGroup}
          [] r = RoleMember -> {}
          [] OTHER -> {PermissionRemoveMember, PermissionChangeRole}]

PermissionMatrices == {DefaultPermissions, CustomPermissions}

(* GroupSettings.MaxMembers values a group is created with *)
MaxMembersChoices == 1..MaxMembersBound

NoGroup == [exists |-> FALSE, members |-> [a \in Addresses |-> NotMember],
            maxMembers |-> 0, permissions |-> DefaultPermissions]

(* len(g.Members) *)
MemberCount(g) == Cardinality({a \in Addresses : g.members[a] # NotMember})

(* HasPermission without the lookup of the role's permission set *)
HasPermission_AnyMember(g, address, permission) ==
    g.members[address] # NotMember

(* Group.HasPermission *)
HasPermission(g, address, permission) ==
    /\ g.members[address] # NotMember
    /\ permission \in g.permissions[g.members[address]]

(* the roleHierarchy map of Group.canModifyRole; a missing key reads 0 *)
RoleLevel(r) ==
    CASE r = RoleOwner -> 5
      [] r = RoleAdmin -> 4
      [] r = RoleModerator -> 3
      [] r = RoleMember -> 2
      [] r = RoleGuest -> 1
      [] OTHER -> 0

(* canModifyRole that lets a role modify its own level *)
canModifyRole_OrEqual(modifierRole, targetRole) ==
    RoleLevel(modifierRole) >= RoleLevel(targetRole)

(* Group.canModifyRole *)
canModifyRole(modifierRole, targetRole) == RoleLevel(modifierRole) > RoleLevel(targetRole)

NoGroupCall ==
    [op |-> "none", id |-> "none", actor |-> "none", target |-> "none", role |-> "none", ok |-> FALSE,
     actorRole |-> NotMember, targetRole |-> NotMember, count |-> 0]

(* the record of a call on the group g stored under id *)
GroupCall(id, g, op, actor, target, role, ok) ==
    [op |-> op, id |-> id, actor |-> actor, target |-> target, role |-> role, ok |-> ok,
     actorRole |-> g.members[actor], targetRole |-> g.members[target],
     count |-> MemberCount(g)]

(* NewGroupManager: no groups *)
ManagerInit ==
    /\ groups = [id \in GroupIds |-> NoGroup]
    /\ glast = NoGroupCall

(* GroupManager.CreateGroup: the creator becomes the owner *)
CreatedGroup(createdBy, maxMembers, permissions) ==
    [exists |-> TRUE,
     members |-> [a \in Addresses |-> IF a = createdBy THEN RoleOwner ELSE NotMember],
     maxMembers |-> maxMembers, permissions |-> permissions]

CreateGroup(id, createdBy, maxMembers, permissions) ==
    LET ok == ~groups[id].exists
    IN  /\ groups' = IF ok
                     THEN [groups EXCEPT ![id] = CreatedGroup(createdBy, maxMembers, permissions)]
                     ELSE groups
        /\ glast' = GroupCall(id, groups[id], "create", createdBy, createdBy, RoleOwner, ok)
        /\ UNCHANGED <<dvars, svars, xvars>>

(* GroupManager.DeleteGroup *)
DeleteGroup(id, requesterAddress) ==
    LET ok == /\ groups[id].exists
              /\ HasPermission(groups[id], requesterAddress, PermissionDeleteGroup)
    IN  /\ groups' = IF ok THEN [groups EXCEPT ![id] = NoGroup] ELSE groups
        /\ glast' = GroupCall(id, groups[id], "delete", requesterAddress, requesterAddress,
                              "none", ok)
        /\ UNCHANGED <<dvars, svars, xvars>>

(* AddMember with a member limit that is off by one *)
AddMemberOk_OffByOne(g, address, invitedBy, role) ==
    /\ HasPermission(g, invitedBy, PermissionAddMember)
    /\ g.members[address] = NotMember
    /\ ~(MemberCount(g) > g.maxMembers)

(* Group.AddMember: the checks it makes before it inserts the member *)
AddMemberOk(g, address, invitedBy, role) ==
    /\ HasPermission(g, invitedBy, PermissionAddMember)
    /\ g.members[address] = NotMember
    /\ ~(MemberCount(g) >= g.maxMembers)

AddMember(id, address, invitedBy, role) ==
    LET g == groups[id]
        ok == AddMemberOk(g, address, invitedBy, role)
    IN  /\ g.exists
        /\ groups' = IF ok THEN [groups EXCEPT ![id].members[address] = role] ELSE groups
        /\ glast' = GroupCall(id, g, "add", invitedBy, address, role, ok)
        /\ UNCHANGED <<dvars, svars, xvars>>

(* Group.RemoveMember: the checks it makes before it deletes the member *)
RemoveMemberOk(g, address, requesterAddress) ==
    /\ HasPermission(g, requesterAddress, PermissionRemoveMember)
    /\ g.members[address] # NotMember
    /\ g.members[address] # RoleOwner
    /\ canModifyRole(g.members[requesterAddress], g.members[address])

RemoveMember(id, address, requesterAddress) ==
    LET g == groups[id]
        ok == RemoveMemberOk(g, address, requesterAddress)
    IN  /\ g.exists
        /\ groups' = IF ok THEN [groups EXCEPT ![id].members[address] = NotMember] ELSE groups
        /\ glast' = GroupCall(id, g, "remove", requesterAddress, address, "none", ok)
        /\ UNCHANGED <<dvars, svars, xvars>>

(* ChangeRole that compares the actor's level with the current role only *)
ChangeRoleOk_CurrentRoleOnly(g, address, requesterAddress, newRole) ==
    /\ HasPermission(g, requesterAddress, PermissionChangeRole)
    /\ g.members[address] # NotMember
    /\ canModifyRole(g.members[requesterAddress], g.members[address])
    /\ ~(g.members[address] = RoleOwner \/ newRole = RoleOwner)

(* Group.ChangeRole: the checks it makes before it assigns the role *)
ChangeRoleOk(g, address, requesterAddress, newRole) ==
    /\ HasPermission(g, requesterAddress, PermissionChangeRole)
    /\ g.members[address] # NotMember
    /\ canModifyRole(g.members[requesterAddress], g.members[address])
    /\ canModifyRole(g.members[requesterAddress], newRole)
    /\ ~(g.members[address] = RoleOwner \/ newRole = RoleOwner)

ChangeRole(id, address, requesterAddress, newRole) ==
    LET g == groups[id]
        ok == ChangeRoleOk(g, address, requesterAddress, newRole)
    IN  /\ g.exists
        /\ groups' = IF ok THEN [groups EXCEPT ![id].members[address] = newRole] ELSE groups
        /\ glast' = GroupCall(id, g, "change", requesterAddress, address, newRole, ok)
        /\ UNCHANGED <<dvars, svars, xvars>>

GroupsNext ==
    \/ \E id \in GroupIds, a \in Addresses, n \in MaxMembersChoices, p \in PermissionMatrices :
          CreateGroup(id, a, n, p)
    \/ \E id \in GroupIds, a \in Addresses : DeleteGroup(id, a)
    \/ \E id \in GroupIds, a, b \in Addresses, r \in GroupRole : AddMember(id, a, b, r)
    \/ \E id \in GroupIds, a, b \in Addresses : RemoveMember(id, a, b)
    \/ \E id \in GroupIds, a, b \in Addresses, r \in GroupRole : ChangeRole(id, a, b, r)

----------------------------------------------------------------------------
(* Client facade: src/client/client.go, SendMessage and the HTTP retry loop *)

Domains == {"d1", "d2"}

(* the ids of the messages the client sends *)
SentMsgIds == {"m1"}

(* recipient addresses user#domain and ExtractDomainFromEMSGAddress on them *)
Recipients == {"a#d1", "b#d1", "c#d2"}

ExtractDomain(address) == IF address = "c#d2" THEN "d2" ELSE "d1"

(* what one HTTP attempt (httpClient.Do) comes back with: a status code, or *)
(* a transport error                                                        *)
HttpOutcomes == {"200", "429", "500", "timeout", "refused"}

IsTransportError(outcome) == outcome \in {"timeout", "refused"}

(* the lastErr text of a failed attempt *)
AttemptError(outcome) ==
    IF IsTransportError(outcome)
    THEN "HTTP request failed: " \o outcome
    ELSE "HTTP request failed with status " \o outcome \o ": body"

Configs ==
    [keyPair : BOOLEAN, tracking : BOOLEAN, beforeSend : BOOLEAN, afterSend : BOOLEAN,
     notifications : BOOLEAN, maxRetries : 0..MaxRetriesBound,
     retryOn429 : BOOLEAN, retryOnTimeout : BOOLEAN]

Idle ==
    [pc |-> "idle", msg |-> "none", rcpts |-> {}, remaining |-> {}, cur |-> "none",
     attempt |-> 0, lastResp |-> "none"]

NoResult == [ok |-> FALSE, kind |-> "none", text |-> ""]
Success == [ok |-> TRUE, kind |-> "none", text |-> ""]
Failure(kind, text) == [ok |-> FALSE, kind |-> kind, text |-> text]

(* an entry of the log: what was done, for which domain, with what outcome *)
Entry(ev, d, out) == [ev |-> ev, d |-> d, out |-> out]

(* New(config) *)
ClientInit ==
    /\ cfg \in Configs
    /\ send = Idle
    /\ log = <<>>
    /\ result = NoResult

(* getDomainsFromMessage that looks at one recipient only *)
getDomainsFromMessage_First(rcpts) == {ExtractDomain(CHOOSE r \in rcpts : TRUE)}

(* Client.getDomainsFromMessage *)
getDomainsFromMessage(rcpts) == {ExtractDomain(r) : r \in rcpts}

(* shouldRetry that asks for another attempt after any failure *)
shouldRetry_AnyFailure(outcome, attempt) == attempt < cfg.maxRetries

(* Client.shouldRetry; for a transport error statusCode is "0".  The error  *)
(* texts of the transport errors are "timeout" and "refused": of these,     *)
(* strings.Contains(errStr, "timeout") holds of the first                   *)
shouldRetry(outcome, attempt) ==
    IF attempt >= cfg.maxRetries
    THEN FALSE
    ELSE \/ (outcome = "429" /\ cfg.retryOn429)
         \/ (IsTransportError(outcome) /\ cfg.retryOnTimeout /\ outcome = "timeout")

(* one iteration of the loop of sendHTTPRequestWithResponse goes round      *)
(* again: a transport error on shouldRetry, a status on shouldRetry and     *)
(* attempt < MaxRetries                                                     *)
RetriesAttempt(outcome, attempt) ==
    IF IsTransportError(outcome)
    THEN shouldRetry(outcome, attempt)
    ELSE shouldRetry(outcome, attempt) /\ attempt < cfg.maxRetries

(* SendMessage, "if receipt != nil { UpdateDeliveryStatus(id, status, text) }" *)
MarkReceipt(rs, m, status, text) ==
    IF cfg.tracking
    THEN [rs EXCEPT ![m] = UpdatedReceipt(rs[m], status, text, now, expirationTime)]
    ELSE rs

(* the log entry of that receipt update *)
MarkEntry(status) == IF cfg.tracking THEN <<Entry("receipt", "none", status)>> ELSE <<>>

(* SendMessage, "if c.beforeSend != nil { if err := c.beforeSend(msg); err   *)
(* != nil {": a hook error that is ignored                                  *)
BeforeSendAborts_Ignored(hookErr) == FALSE

(* SendMessage, "if c.beforeSend != nil { if err := c.beforeSend(msg); err   *)
(* != nil {": the hook is set and returns an error                          *)
BeforeSendAborts(hookErr) == cfg.beforeSend /\ hookErr

(* SendMessage up to the loop over the domains: key pair check, tracking,   *)
(* before_send hook (hookErr: the hook returns an error), validation (valid *)
(* is the verdict of msg.Validate), signing                                 *)
SendMessageStart(m, rcpts, valid, hookErr) ==
    /\ send.pc = "idle"
    /\ IF ~cfg.keyPair
       THEN /\ result' = Failure("key", "no key pair configured")
            /\ log' = <<>>
            /\ send' = [Idle EXCEPT !.msg = m, !.rcpts = rcpts]
            /\ UNCHANGED receipts
       ELSE LET tracked == IF cfg.tracking
                           THEN [receipts EXCEPT ![m] = NewReceipt(now)]
                           ELSE receipts
                l1 == IF cfg.tracking THEN <<Entry("track", "none", StatusPending)>> ELSE <<>>
                l2 == IF cfg.beforeSend
                      THEN l1 \o <<Entry("before_send", "none",
                                         IF hookErr THEN "error" ELSE "ok")>>
                      ELSE l1
            IN  IF BeforeSendAborts(hookErr)
                THEN /\ receipts' = MarkReceipt(tracked, m, StatusFailed, "hook error")
                     /\ log' = l2 \o MarkEntry(StatusFailed)
                     /\ result' = Failure("before_send", "before send hook failed: hook error")
                     /\ send' = [Idle EXCEPT !.msg = m, !.rcpts = rcpts]
                ELSE IF ~valid
                     THEN /\ receipts' = tracked
                          /\ log' = l2 \o <<Entry("validate", "none", "error")>>
                          /\ result' = Failure("validate", "invalid message")
                          /\ send' = [Idle EXCEPT !.msg = m, !.rcpts = rcpts]
                     ELSE /\ receipts' = tracked
                          /\ log' = l2 \o <<Entry("validate", "none", "ok"),
                                            Entry("sign", "none", "ok")>>
                          /\ result' = NoResult
                          /\ send' = [Idle EXCEPT !.pc = "domains", !.msg = m,
                                         !.rcpts = rcpts,
                                         !.remaining = getDomainsFromMessage(rcpts)]
    /\ UNCHANGED <<cfg, now, expirationTime, strategy, dlast, kvars, gvars, xvars>>

(* SendMessage that goes on with the next domain after an error for d *)
FailSend_KeepGoing(d, cause, entry) ==
    LET text == "failed to send message to domain " \o d \o ": " \o cause
    IN  /\ receipts' = MarkReceipt(receipts, send.msg, StatusFailed, text)
        /\ log' = log \o <<entry>> \o MarkEntry(StatusFailed)
        /\ result' = Failure("domain", text)
        /\ send' = [send EXCEPT
               !.remaining = send.remaining \ {d},
               !.pc = IF send.remaining \ {d} = {} THEN "idle" ELSE "domains"]

(* SendMessage on an error for domain d: the receipt is marked failed with  *)
(* the error text and the call returns the error                            *)
FailSend(d, cause, entry) ==
    LET text == "failed to send message to domain " \o d \o ": " \o cause
    IN  /\ receipts' = MarkReceipt(receipts, send.msg, StatusFailed, text)
        /\ log' = log \o <<entry>> \o MarkEntry(StatusFailed)
        /\ result' = Failure("domain", text)
        /\ send' = [send EXCEPT !.pc = "idle"]

(* sendMessageToDomainWithResponse, the resolution of the next domain of    *)
(* the loop (the order of a map iteration is any order)                     *)
ResolveDomain(d, ok) ==
    /\ send.pc = "domains"
    /\ d \in send.remaining
    /\ IF ok
       THEN /\ log' = log \o <<Entry("resolve", d, "ok")>>
            /\ send' = [send EXCEPT !.pc = "http", !.cur = d, !.attempt = 0]
            /\ UNCHANGED <<receipts, result>>
       ELSE FailSend(d, "failed to resolve domain " \o d, Entry("resolve", d, "error"))
    /\ UNCHANGED <<cfg, now, expirationTime, strategy, dlast, kvars, gvars, xvars>>

(* an attempt counter that the loop does not advance *)
NextAttempt_Stuck(attempt) == attempt

(* sendHTTPRequestWithResponse, "attempt++" *)
NextAttempt(attempt) == attempt + 1

(* one iteration of the loop of sendHTTPRequestWithResponse *)
HttpAttempt(outcome) ==
    /\ send.pc = "http"
    /\ send.attempt <= cfg.maxRetries
    /\ IF outcome = "200"
       THEN /\ log' = log \o <<Entry("post", send.cur, outcome)>>
            /\ send' = [send EXCEPT
                   !.remaining = send.remaining \ {send.cur},
                   !.lastResp = send.cur,
                   !.pc = IF send.remaining \ {send.cur} = {} THEN "finish" ELSE "domains"]
            /\ UNCHANGED <<receipts, result>>
       ELSE IF /\ RetriesAttempt(outcome, send.attempt)
               /\ NextAttempt(send.attempt) <= cfg.maxRetries
            THEN /\ log' = log \o <<Entry("post", send.cur, outcome)>>
                 /\ send' = [send EXCEPT !.attempt = NextAttempt(send.attempt)]
                 /\ UNCHANGED <<receipts, result>>
            ELSE FailSend(send.cur, AttemptError(outcome), Entry("post", send.cur, outcome))
    /\ UNCHANGED <<cfg, now, expirationTime, strategy, dlast, kvars, gvars, xvars>>

(* SendMessage after the loop: receipt sent, after_send hook (afterErr: the *)
(* hook returns an error, which is logged), message_sent notification       *)
SendMessageFinish(afterErr) ==
    /\ send.pc = "finish"
    /\ receipts' = MarkReceipt(receipts, send.msg, StatusSent, "")
    /\ log' = log \o MarkEntry(StatusSent)
                  \o (IF cfg.afterSend /\ send.lastResp # "none"
                      THEN <<Entry("after_send", send.lastResp,
                                   IF afterErr THEN "error" ELSE "ok")>>
                      ELSE <<>>)
                  \o (IF cfg.notifications
                      THEN <<Entry("message_sent", "none", "ok")>>
                      ELSE <<>>)
    /\ result' = Success
    /\ send' = [send EXCEPT !.pc = "idle"]
    /\ UNCHANGED <<cfg, now, expirationTime, strategy, dlast, kvars, gvars, xvars>>

SendNext ==
    \/ \E m \in SentMsgIds, rcpts \in (SUBSET Recipients) \ {{}}, valid, hookErr \in BOOLEAN :
          SendMessageStart(m, rcpts, valid, hookErr)
    \/ \E d \in Domains, ok \in BOOLEAN : ResolveDomain(d, ok)
    \/ \E outcome \in HttpOutcomes : HttpAttempt(outcome)
    \/ \E afterErr \in BOOLEAN : SendMessageFinish(afterErr)

----------------------------------------------------------------------------
(* HTTP retry delays: src/client/client.go, RetryStrategy                   *)
(*                                                                         *)
(* Delays are whole seconds and backoff factors whole numbers, so that      *)
(* float64(InitialDelay) * math.Pow(BackoffFactor, attempt) is a whole      *)
(* number of nanoseconds well inside the range of time.Duration.            *)

RetryStrategies ==
    [maxRetries : 0..MaxBackoffRetries, initialDelay : 1..MaxInitialDelay,
     maxDelay : 1..MaxDelayBound, backoffFactor : 1..MaxBackoffFactor]

(* calculateDelay without the cap *)
calculateDelay_Uncapped(attempt) ==
    retry.strategy.initialDelay * Pow(retry.strategy.backoffFactor, attempt)

(* Client.calculateDelay *)
calculateDelay(attempt) ==
    LET delay == retry.strategy.initialDelay * Pow(retry.strategy.backoffFactor, attempt)
    IN  IF delay > retry.strategy.maxDelay THEN retry.strategy.maxDelay ELSE delay

(* a client whose request has made no attempt yet *)
RetryIdle ==
    retry = [strategy |-> [maxRetries |-> 0, initialDelay |-> 1, maxDelay |-> 1,
                           backoffFactor |-> 1],
             attempt |-> 0, slept |-> <<>>]

(* New(config) with a RetryStrategy *)
RetryInit ==
    \E st \in RetryStrategies : retry = [strategy |-> st, attempt |-> 0, slept |-> <<>>]

(* sendHTTPRequestWithResponse is entered: "attempt := 0" *)
StartRequest ==
    /\ retry.attempt > 0
    /\ retry' = [retry EXCEPT !.attempt = 0, !.slept = <<>>]
    /\ UNCHANGED <<dvars, gvars, svars, wvars, nvars, pvars, yvars>>

(* a failed attempt that shouldRetry lets try again: waitBeforeRetry sleeps *)
(* calculateDelay(attempt), then "continue" advances the attempt            *)
WaitBeforeRetry ==
    /\ retry.attempt < retry.strategy.maxRetries
    /\ retry' = [retry EXCEPT !.attempt = retry.attempt + 1,
                              !.slept = Append(retry.slept, calculateDelay(retry.attempt))]
    /\ UNCHANGED <<dvars, gvars, svars, wvars, nvars, pvars, yvars>>

RetryNext ==
    \/ StartRequest
    \/ WaitBeforeRetry

----------------------------------------------------------------------------
(* Real-time transport: src/websocket/websocket.go                          *)
(*                                                                         *)
(* A task is a goroutine of the transport: the read, write and ping loops   *)
(* and the message processor that Connect starts (gen is the connection     *)
(* that Connect opened), and the reconnect goroutines that an exiting read  *)
(* loop starts.  hold is the frame a write loop or a processor has taken    *)
(* from its channel and not yet written or dispatched (0: none); for a      *)
(* reconnect goroutine it is its position.  Connections are numbered in the *)
(* order they are opened; 0 is the nil connection.  Frames are numbered in  *)
(* the order they are accepted by SendMessage, incoming frames in the order *)
(* they are read; heard[k] is the connection incoming frame k was read on.  *)
(* base is the number of frames of the backlog a run starts with, and       *)
(* accepted[k] the connection on which SendMessage accepted frame base+k.   *)

(* make(chan []byte, 100), make(chan *WebSocketMessage, 100) *)
SendChanCapacity == 100
ReceiveChanCapacity == 100

LoopKinds == {"read", "write", "ping", "proc"}

Task(kind, gen, hold) == [kind |-> kind, gen |-> gen, hold |-> hold]

(* the goroutines Connect starts for connection gen *)
ConnectionTasks(gen) == {Task(k, gen, 0) : k \in LoopKinds}

ReconnectStrategies ==
    [maxRetries : 0..MaxReconnectRetries, enableReconnect : BOOLEAN]

(* a strategy like DefaultReconnectStrategy, and one without reconnect *)
ReconnectOnOff ==
    {[maxRetries |-> MaxReconnectRetries, enableReconnect |-> e] : e \in BOOLEAN}

(* what the reconnect goroutine that ran last has done: the attempts it has *)
(* made and whether it has returned                                         *)
NoReconnect == [made |-> 0, done |-> FALSE]

(* a transport call: whether the transport was connected and its send      *)
(* queue full when the call was made, and what the call returned           *)
NoTransportCall == [op |-> "none", before |-> FALSE, full |-> FALSE, result |-> "none"]

TransportCall(op, res) ==
    [op |-> op, before |-> ws.connected,
     full |-> (op = "send" /\ Len(sendChan) >= SendChanCapacity), result |-> res]

(* NewWebSocketClient, then SetReconnectStrategy(st) *)
NewWebSocketClient(st) ==
    [connected |-> FALSE, connecting |-> FALSE, ctxDone |-> FALSE, conn |-> 0,
     gens |-> 0, closed |-> {}, strategy |-> st, crashed |-> FALSE,
     base |-> 0, accepted |-> <<>>, heard |-> <<>>,
     reconnect |-> NoReconnect]

(* a transport that is not used *)
TransportIdle ==
    /\ ws = NewWebSocketClient([maxRetries |-> 0, enableReconnect |-> FALSE])
    /\ tasks = {}
    /\ sendChan = <<>>
    /\ receiveChan = <<>>
    /\ wire = <<>>
    /\ dispatched = <<>>
    /\ wlast = NoTransportCall

(* the frames a connected transport has accepted and its write loop has not *)
(* yet taken, when the peer reads slowly                                    *)
Backlogs == {0, SendChanCapacity - 1}

(* a new transport, or a transport on its first connection with a backlog   *)
(* of n frames                                                              *)
TransportInit(strategies, backlogs) ==
    \E st \in strategies, n \in backlogs :
        /\ ws = IF n = 0
                THEN NewWebSocketClient(st)
                ELSE [NewWebSocketClient(st) EXCEPT
                         !.connected = TRUE, !.conn = 1, !.gens = 1,
                         !.base = n]
        /\ tasks = IF n = 0 THEN {} ELSE ConnectionTasks(1)
        /\ sendChan = [i \in 1..n |-> i]
        /\ receiveChan = <<>>
        /\ wire = <<>>
        /\ dispatched = <<>>
        /\ wlast = NoTransportCall

(* the events of the transport are followed, or they are not *)
NoTrace(on) == [on |-> on, events |-> <<>>, lost |-> {}]

TraceIdle == wtrace = NoTrace(FALSE)

(* triggerEvent(event, ...) by a call or goroutine of connection gen *)
Event(event, gen) == [event |-> event, gen |-> gen]

(* the trace after the events es have been triggered *)
Triggered(es) == IF wtrace.on THEN [wtrace EXCEPT !.events = @ \o es] ELSE wtrace

(* Connect on connected or connecting *)
ConnectRefused_Never == FALSE

(* Connect, "if ws.connected || ws.connecting" *)
ConnectRefused == ws.connected \/ ws.connecting

(* Connect up to the dial: ws.mutex is taken and held until Connect         *)
(* returns, so that connecting is set exactly while Connect holds the mutex *)
ConnectBegin ==
    /\ ~ws.crashed
    /\ ~ws.connecting
    /\ ws.gens < MaxConnections
    /\ IF ConnectRefused
       THEN /\ wlast' = TransportCall("connect", "already connected or connecting")
            /\ UNCHANGED ws
       ELSE /\ ws' = [ws EXCEPT !.connecting = TRUE]
            /\ wlast' = TransportCall("connect", "dialing")
    /\ UNCHANGED <<tasks, sendChan, receiveChan, wire, dispatched>>
    /\ UNCHANGED <<dvars, gvars, svars, rvars, nvars, pvars, yvars>>

(* Connect from the dial on (ok: the handshake succeeds): the connection is *)
(* stored and the four goroutines are started                               *)
ConnectFinish(ok) ==
    /\ ~ws.crashed
    /\ ws.connecting
    /\ IF ok
       THEN /\ ws' = [ws EXCEPT !.connecting = FALSE, !.connected = TRUE,
                                !.gens = ws.gens + 1, !.conn = ws.gens + 1]
            /\ tasks' = tasks \cup ConnectionTasks(ws.gens + 1)
            /\ wlast' = [wlast EXCEPT !.result = "ok"]
            /\ wtrace' = Triggered(<<Event("connected", ws.gens + 1)>>)
       ELSE /\ ws' = [ws EXCEPT !.connecting = FALSE]
            /\ wlast' = [wlast EXCEPT !.result = "failed to connect to WebSocket"]
            /\ UNCHANGED <<tasks, wtrace>>
    /\ UNCHANGED <<sendChan, receiveChan, wire, dispatched>>
    /\ UNCHANGED uvars

(* Disconnect: the context is cancelled, the connection closed and dropped *)
Disconnect ==
    /\ ~ws.crashed
    /\ ~ws.connecting
    /\ IF ~ws.connected
       THEN /\ wlast' = TransportCall("disconnect", "not connected")
            /\ UNCHANGED <<ws, wtrace>>
       ELSE /\ ws' = [ws EXCEPT !.ctxDone = TRUE, !.connected = FALSE, !.conn = 0,
                                !.closed = ws.closed \cup ({ws.conn} \ {0})]
            /\ wlast' = TransportCall("disconnect", "ok")
            /\ wtrace' = Triggered(<<Event("disconnected", ws.conn)>>)
    /\ UNCHANGED <<tasks, sendChan, receiveChan, wire, dispatched>>
    /\ UNCHANGED uvars

(* the results the select of SendMessage can come to: a communication that  *)
(* can proceed is chosen, the default only if none can                      *)
SendSelect ==
    LET ready == (IF Len(sendChan) < SendChanCapacity THEN {"ok"} ELSE {})
                    \cup (IF ws.ctxDone THEN {"connection closed"} ELSE {})
    IN  IF ready = {} THEN {"send buffer full"} ELSE ready

(* WebSocketClient.SendMessage *)
WsSendMessage(choice) ==
    /\ ~ws.crashed
    /\ ~ws.connecting
    /\ Len(ws.accepted) < MaxFrames
    /\ IF ~ws.connected
       THEN /\ wlast' = TransportCall("send", "not connected")
            /\ UNCHANGED <<ws, sendChan>>
       ELSE /\ choice \in SendSelect
            /\ wlast' = TransportCall("send", choice)
            /\ IF choice = "ok"
               THEN /\ sendChan' = Append(sendChan, ws.base + Len(ws.accepted) + 1)
                    /\ ws' = [ws EXCEPT !.accepted = Append(ws.accepted, ws.conn)]
               ELSE UNCHANGED <<ws, sendChan>>
    /\ UNCHANGED <<tasks, receiveChan, wire, dispatched>>
    /\ UNCHANGED <<dvars, gvars, svars, rvars, nvars, pvars, yvars>>

(* the number of frames SendMessage has accepted *)
Sent == ws.base + Len(ws.accepted)

(* the task t with the frame f in its hands *)
Holding(t, f) == [t EXCEPT !.hold = f]

(* the connection a loop finds in ws.conn: the field is written under       *)
(* ws.mutex by Connect and Disconnect and read by the loops without it, so  *)
(* a loop reads the current value or the one it was started with            *)
ConnSeenBy(t) == {ws.conn, t.gen}

(* writeLoop, the select: a frame is taken from sendChan, or the context is *)
(* done and the loop returns                                                *)
WriterTake(t, choice) ==
    /\ ~ws.crashed
    /\ t \in tasks /\ t.kind = "write" /\ t.hold = 0
    /\ \/ /\ choice = "frame"
          /\ sendChan # <<>>
          /\ Sent - Len(sendChan) < MaxWritten     \* frames taken so far
          /\ sendChan' = Tail(sendChan)
          /\ tasks' = (tasks \ {t}) \cup {Holding(t, Head(sendChan))}
       \/ /\ choice = "done"
          /\ ws.ctxDone
          /\ tasks' = tasks \ {t}
          /\ UNCHANGED sendChan
    /\ UNCHANGED <<ws, receiveChan, wire, dispatched, wlast>>
    /\ UNCHANGED <<dvars, gvars, svars, rvars, nvars, pvars, yvars>>

(* writeLoop, ws.conn.WriteMessage: on the nil connection the goroutine     *)
(* panics, on a closed one the write fails and the loop returns             *)
WriterWrite(t, c) ==
    /\ ~ws.crashed
    /\ t \in tasks /\ t.kind = "write" /\ t.hold # 0
    /\ c \in ConnSeenBy(t)
    /\ IF c = 0
       THEN /\ ws' = [ws EXCEPT !.crashed = TRUE]
            /\ UNCHANGED <<tasks, wire>>
       ELSE IF c \in ws.closed
            THEN /\ tasks' = tasks \ {t}
                 /\ UNCHANGED <<ws, wire>>
            ELSE /\ wire' = Append(wire, [conn |-> c, frame |-> t.hold])
                 /\ tasks' = (tasks \ {t}) \cup {Holding(t, 0)}
                 /\ UNCHANGED ws
    /\ UNCHANGED <<sendChan, receiveChan, dispatched, wlast>>
    /\ UNCHANGED <<dvars, gvars, svars, rvars, nvars, pvars, yvars>>

(* the connection is lost: the server or the network closes it *)
ConnectionLost ==
    /\ ~ws.crashed
    /\ ws.conn # 0
    /\ ws.conn \notin ws.closed
    /\ ws' = [ws EXCEPT !.closed = ws.closed \cup {ws.conn}]
    /\ wtrace' = IF wtrace.on THEN [wtrace EXCEPT !.lost = @ \cup {ws.conn}] ELSE wtrace
    /\ UNCHANGED <<tasks, sendChan, receiveChan, wire, dispatched, wlast>>
    /\ UNCHANGED uvars

(* readLoop, one round: the context is not done, a frame is read from the   *)
(* connection and put on receiveChan                                        *)
ReadFrame(t) ==
    /\ ~ws.crashed
    /\ t \in tasks /\ t.kind = "read"
    /\ ~ws.ctxDone
    /\ t.gen = ws.conn /\ t.gen \notin ws.closed
    /\ Len(ws.heard) < MaxReceived
    /\ Len(receiveChan) < ReceiveChanCapacity
    /\ receiveChan' = Append(receiveChan, Len(ws.heard) + 1)
    /\ ws' = [ws EXCEPT !.heard = Append(ws.heard, t.gen)]
    /\ UNCHANGED <<tasks, sendChan, wire, dispatched, wlast>>
    /\ UNCHANGED <<dvars, gvars, svars, rvars, nvars, pvars, yvars>>

(* readLoop returns, on a done context or on a read error (an error event  *)
(* is triggered if the peer closed with an unexpected close code); the      *)
(* deferred function starts reconnect if EnableReconnect is set             *)
ReaderExit(t) ==
    /\ ~ws.crashed
    /\ t \in tasks /\ t.kind = "read"
    /\ ws.ctxDone \/ t.gen \in ws.closed
    /\ tasks' = (tasks \ {t}) \cup
                    (IF ws.strategy.enableReconnect
                     THEN {Task("reconnect", t.gen, 0)} ELSE {})
    /\ \E unexpected \in BOOLEAN :
          /\ unexpected => t.gen \in wtrace.lost
          /\ wtrace' = Triggered(IF unexpected THEN <<Event("error", t.gen)>> ELSE <<>>)
    /\ UNCHANGED ws
    /\ UNCHANGED <<sendChan, receiveChan, wire, dispatched, wlast>>
    /\ UNCHANGED uvars

(* pingLoop, the select: the ticker fires and a ping is written to ws.conn  *)
(* (a panic on the nil connection, the loop returns on a closed one), or    *)
(* the context is done and the loop returns                                 *)
PingTick(t, choice, c) ==
    /\ ~ws.crashed
    /\ t \in tasks /\ t.kind = "ping"
    /\ c \in ConnSeenBy(t)
    /\ \/ /\ choice = "tick"
          /\ IF c = 0
             THEN /\ ws' = [ws EXCEPT !.crashed = TRUE]
                  /\ UNCHANGED tasks
             ELSE IF c \in ws.closed
                  THEN /\ tasks' = tasks \ {t}
                       /\ UNCHANGED ws
                  ELSE UNCHANGED <<ws, tasks>>
       \/ /\ choice = "done"
          /\ ws.ctxDone
          /\ tasks' = tasks \ {t}
          /\ UNCHANGED ws
    /\ UNCHANGED <<sendChan, receiveChan, wire, dispatched, wlast>>
    /\ UNCHANGED <<dvars, gvars, svars, rvars, nvars, pvars, yvars>>

(* messageProcessor, the select: a frame is taken from receiveChan, or the  *)
(* context is done and the processor returns                                *)
ProcessorTake(t, choice) ==
    /\ ~ws.crashed
    /\ t \in tasks /\ t.kind = "proc" /\ t.hold = 0
    /\ \/ /\ choice = "frame"
          /\ receiveChan # <<>>
          /\ receiveChan' = Tail(receiveChan)
          /\ tasks' = (tasks \ {t}) \cup {Holding(t, Head(receiveChan))}
       \/ /\ choice = "done"
          /\ ws.ctxDone
          /\ tasks' = tasks \ {t}
          /\ UNCHANGED receiveChan
    /\ UNCHANGED <<ws, sendChan, wire, dispatched, wlast>>
    /\ UNCHANGED <<dvars, gvars, svars, rvars, nvars, pvars, yvars>>

(* processMessage: the frame goes to the notification manager and the      *)
(* message event is triggered                                               *)
processMessage(t) ==
    /\ ~ws.crashed
    /\ t \in tasks /\ t.kind = "proc" /\ t.hold # 0
    /\ dispatched' = Append(dispatched, t.hold)
    /\ tasks' = (tasks \ {t}) \cup {Holding(t, 0)}
    /\ wtrace' = Triggered(<<Event("message", t.gen)>>)
    /\ UNCHANGED <<ws, sendChan, receiveChan, wire, wlast>>
    /\ UNCHANGED uvars

(* reconnect up to its loop: connected is cleared under ws.mutex and the    *)
(* reconnecting event is triggered                                          *)
ReconnectBegin(t) ==
    /\ ~ws.crashed
    /\ ~ws.connecting
    /\ t \in tasks /\ t.kind = "reconnect" /\ t.hold = 0
    /\ ws' = [ws EXCEPT !.connected = FALSE, !.reconnect = NoReconnect]
    /\ tasks' = (tasks \ {t}) \cup {Holding(t, 1)}
    /\ wtrace' = Triggered(<<Event("reconnecting", t.gen)>>)
    /\ UNCHANGED <<sendChan, receiveChan, wire, dispatched, wlast>>
    /\ UNCHANGED uvars

(* the attempts the loop of reconnect makes until it is left: the body ends *)
(* in "break"                                                               *)
ReconnectAttempts == IF 0 < ws.strategy.maxRetries THEN 1 ELSE 0

(* reconnect, the loop "for attempt := 0; attempt < MaxRetries; attempt++": *)
(* each round sleeps the backoff delay and triggers the reconnecting event; *)
(* no connection is opened                                                  *)
ReconnectLoop(t) ==
    /\ ~ws.crashed
    /\ t \in tasks /\ t.kind = "reconnect" /\ t.hold = 1
    /\ ws' = [ws EXCEPT !.reconnect = [made |-> ReconnectAttempts, done |-> TRUE]]
    /\ tasks' = tasks \ {t}
    /\ wtrace' = Triggered([i \in 1..ReconnectAttempts |-> Event("reconnecting", t.gen)])
    /\ UNCHANGED <<sendChan, receiveChan, wire, dispatched, wlast>>
    /\ UNCHANGED uvars

(* the calls and goroutines that open, close and lose connections *)
ConnectionNext ==
    \/ ConnectBegin
    \/ \E ok \in BOOLEAN : ConnectFinish(ok)
    \/ Disconnect
    \/ ConnectionLost
    \/ \E t \in tasks : ReaderExit(t)
    \/ \E t \in tasks : ReconnectBegin(t)
    \/ \E t \in tasks : ReconnectLoop(t)

(* the send path: SendMessage and the write loops *)
TransportSendNext ==
    \/ ConnectionNext
    \/ \E choice \in {"ok", "connection closed", "send buffer full"} : WsSendMessage(choice)
    \/ \E t \in tasks, choice \in {"frame", "done"} : WriterTake(t, choice)
    \/ \E t \in tasks, c \in 0..MaxConnections : WriterWrite(t, c)

(* the receive path: the read loops, the processors and the ping loops *)
TransportReceiveNext ==
    \/ ConnectionNext
    \/ \E t \in tasks : ReadFrame(t)
    \/ \E t \in tasks, choice \in {"frame", "done"} : ProcessorTake(t, choice)
    \/ \E t \in tasks : processMessage(t)
    \/ \E t \in tasks, choice \in {"tick", "done"}, c \in 0..MaxConnections :
          PingTick(t, choice, c)

----------------------------------------------------------------------------
(* Notification manager: src/unnamed/part_000 (package notifications)       *)
(*                                                                         *)
(* Handlers are numbered in the order they are registered.  A Notify call   *)
(* is a record: the handler lists it read under the mutex, the synchronous  *)
(* handlers it has invoked so far (it is inside the last of them while pc   *)
(* is "in"), the place of the handler that returned an error (0: none),     *)
(* the asynchronous handlers of the call that have begun to execute, and    *)
(* its result.  An async task is a goroutine running executeAsyncHandler.   *)

EventMessageReceived == "message_received"
EventMessageSent == "message_sent"

NotificationEvents == {EventMessageReceived, EventMessageSent}

(* NewNotificationManager(maxConcurrentHandlers) *)
NewNotificationManager(maxConcurrentHandlers) ==
    [handlers |-> [e \in NotificationEvents |-> <<>>],
     asyncHandlers |-> [e \in NotificationEvents |-> <<>>],
     ctxDone |-> FALSE, workerPool |-> 0, capacity |-> maxConcurrentHandlers,
     registered |-> 0]

(* a notification manager that is not used *)
NotificationsIdle ==
    /\ nm = NewNotificationManager(1)
    /\ ncalls = <<>>
    /\ atasks = {}

NotificationsInit ==
    /\ \E n \in 1..MaxConcurrentHandlers : nm = NewNotificationManager(n)
    /\ ncalls = <<>>
    /\ atasks = {}

RECURSIVE Registered(_, _)
(* the number of handlers in the lists of the events of a set *)
Registered(lists, events) ==
    IF events = {} THEN 0
    ELSE LET e == CHOOSE x \in events : TRUE
         IN  Len(lists[e]) + Registered(lists, events \ {e})

(* RegisterHandler *)
RegisterHandler(e) ==
    /\ Registered(nm.handlers, NotificationEvents) < MaxSyncHandlers
    /\ nm' = [nm EXCEPT !.handlers[e] = Append(nm.handlers[e], nm.registered + 1),
                        !.registered = nm.registered + 1]
    /\ UNCHANGED <<ncalls, atasks>>
    /\ UNCHANGED <<dvars, gvars, svars, rvars, wvars, pvars, yvars>>

(* RegisterAsyncHandler *)
RegisterAsyncHandler(e) ==
    /\ Registered(nm.asyncHandlers, NotificationEvents) < MaxAsyncHandlers
    /\ nm' = [nm EXCEPT !.asyncHandlers[e] = Append(nm.asyncHandlers[e], nm.registered + 1),
                        !.registered = nm.registered + 1]
    /\ UNCHANGED <<ncalls, atasks>>
    /\ UNCHANGED <<dvars, gvars, svars, rvars, wvars, pvars, yvars>>

AsyncTask(c, h) == [call |-> c, handler |-> h, st |-> "waiting"]

(* Notify, "for _, handler := range asyncHandlers { go executeAsyncHandler" *)
ScheduledBy(c, call) == {AsyncTask(c, call.async[i]) : i \in 1..Len(call.async)}

(* a loop over the synchronous handlers that starts at the last one *)
NextSyncHandler_Reverse(call) == call.sync[Len(call.sync) - Len(call.ran)]

(* Notify, "for _, handler := range syncHandlers": the handler invoked next *)
NextSyncHandler(call) == call.sync[Len(call.ran) + 1]

(* an error of a synchronous handler that is ignored *)
SyncFails_Ignored(err) == FALSE

(* Notify, "if err := handler(notification); err != nil" *)
SyncFails(err) == err

(* Notify from the place where the synchronous loop stands: the next        *)
(* handler is invoked, or, past the last one, the asynchronous handlers are *)
(* started and Notify returns nil                                           *)
Proceed(calls, c, call) ==
    IF Len(call.ran) < Len(call.sync)
    THEN /\ ncalls' = [calls EXCEPT ![c] =
                          [call EXCEPT !.ran = Append(call.ran, NextSyncHandler(call)),
                                       !.pc = "in"]]
         /\ UNCHANGED atasks
    ELSE /\ ncalls' = [calls EXCEPT ![c] = [call EXCEPT !.pc = "done", !.result = "ok"]]
         /\ atasks' = atasks \cup ScheduledBy(c, call)

(* Notify is called: the handler lists of the event are read under the      *)
(* mutex and the loop over the synchronous handlers is entered              *)
Notify(e) ==
    /\ Len(ncalls) < MaxNotifies
    /\ LET c == Len(ncalls) + 1
           call == [event |-> e, sync |-> nm.handlers[e], async |-> nm.asyncHandlers[e],
                    ran |-> <<>>, failedAt |-> 0, started |-> {}, pc |-> "loop",
                    result |-> "none"]
       IN  Proceed(Append(ncalls, call), c, call)
    /\ UNCHANGED nm
    /\ UNCHANGED <<dvars, gvars, svars, rvars, wvars, pvars, yvars>>

(* a synchronous handler returns to Notify, with an error or without: "if   *)
(* err := handler(notification); err != nil { return ... }", else the loop  *)
(* goes on                                                                  *)
SyncHandlerReturns(c, err) ==
    /\ c \in 1..Len(ncalls)
    /\ ncalls[c].pc = "in"
    /\ LET call == IF err THEN [ncalls[c] EXCEPT !.failedAt = Len(ncalls[c].ran)]
                   ELSE ncalls[c]
       IN  IF SyncFails(err)
           THEN /\ ncalls' = [ncalls EXCEPT ![c] =
                                 [call EXCEPT !.pc = "done", !.result = "error"]]
                /\ UNCHANGED atasks
           ELSE Proceed(ncalls, c, call)
    /\ UNCHANGED nm
    /\ UNCHANGED <<dvars, gvars, svars, rvars, wvars, pvars, yvars>>

(* a worker pool that never refuses a slot *)
SlotFree_Always == TRUE

(* executeAsyncHandler, "case nm.workerPool <- struct{}{}": the send on the *)
(* buffered channel is ready while the channel is not full                  *)
SlotFree == nm.workerPool < nm.capacity

(* executeAsyncHandler, the cases of its select that are ready *)
AsyncSelect ==
    (IF SlotFree THEN {"slot"} ELSE {}) \cup (IF nm.ctxDone THEN {"done"} ELSE {})

(* executeAsyncHandler up to the call of the handler: a slot is taken and   *)
(* the handler begins, or the context is done and the handler is skipped    *)
executeAsyncHandler(t, choice) ==
    /\ t \in atasks
    /\ t.st = "waiting"
    /\ choice \in AsyncSelect
    /\ IF choice = "slot"
       THEN /\ nm' = [nm EXCEPT !.workerPool = nm.workerPool + 1]
            /\ atasks' = (atasks \ {t}) \cup {[t EXCEPT !.st = "running"]}
            /\ ncalls' = [ncalls EXCEPT ![t.call].started =
                             ncalls[t.call].started \cup {t.handler}]
       ELSE /\ atasks' = atasks \ {t}
            /\ UNCHANGED <<nm, ncalls>>
    /\ UNCHANGED <<dvars, gvars, svars, rvars, wvars, pvars, yvars>>

(* executeAsyncHandler, the handler returns or panics: "defer func() {      *)
(* <-nm.workerPool }()" gives the slot back, the panic is recovered         *)
AsyncHandlerReturns(t) ==
    /\ t \in atasks
    /\ t.st = "running"
    /\ nm' = [nm EXCEPT !.workerPool = nm.workerPool - 1]
    /\ atasks' = atasks \ {t}
    /\ UNCHANGED ncalls
    /\ UNCHANGED <<dvars, gvars, svars, rvars, wvars, pvars, yvars>>

(* Shutdown: nm.cancel() *)
Shutdown ==
    /\ ~nm.ctxDone
    /\ nm' = [nm EXCEPT !.ctxDone = TRUE]
    /\ UNCHANGED <<ncalls, atasks>>
    /\ UNCHANGED <<dvars, gvars, svars, rvars, wvars, pvars, yvars>>

(* the synchronous path of Notify: handlers are registered, events are     *)
(* notified, synchronous handlers return, asynchronous handlers begin       *)
DispatchNext ==
    \/ \E e \in NotificationEvents : RegisterHandler(e)
    \/ \E e \in NotificationEvents : RegisterAsyncHandler(e)
    \/ \E e \in NotificationEvents : Len(ncalls) < MaxDispatches /\ Notify(e)
    \/ \E c \in 1..MaxNotifies, err \in BOOLEAN : SyncHandlerReturns(c, err)
    \/ \E t \in atasks, choice \in {"slot", "done"} : executeAsyncHandler(t, choice)

(* the asynchronous path: only asynchronous handlers are registered, events *)
(* are notified from concurrent callers, the handlers run and return, the   *)
(* manager is shut down                                                     *)
WorkerPoolNext ==
    \/ \E e \in NotificationEvents : RegisterAsyncHandler(e)
    \/ \E e \in NotificationEvents : Notify(e)
    \/ \E t \in atasks, choice \in {"slot", "done"} : executeAsyncHandler(t, choice)
    \/ \E t \in atasks : AsyncHandlerReturns(t)
    \/ Shutdown

----------------------------------------------------------------------------
(* Message poller: src/unnamed/part_000 (package notifications)             *)
(*                                                                         *)
(* The inbox is the list of the timestamps (whole seconds) of the messages  *)
(* the server holds for the address, in the order they arrived.  A polling  *)
(* loop is a goroutine running pollLoop: the number of the Start call that  *)
(* launched it, the number of effective Stop calls before it, its position  *)
(* ("select": at the select of the loop, "fetched": in pollMessages with    *)
(* the answer of GetMessages) and the messages GetMessages returned.        *)

ErrAlreadyRunning == "message poller is already running"

NoPollerCall == [op |-> "none", before |-> FALSE, result |-> "none"]

(* NewMessagePoller: the context is created here and nowhere else; timed    *)
(* says whether the instant of each fetch is followed                       *)
NewMessagePoller ==
    [running |-> FALSE, ctxDone |-> FALSE, lastPollTime |-> now, launched |-> 0,
     stops |-> 0, timed |-> FALSE]

PollerIdle ==
    /\ poller = [running |-> FALSE, ctxDone |-> FALSE, lastPollTime |-> 0, launched |-> 0,
                 stops |-> 0, timed |-> FALSE]
    /\ loops = {}
    /\ inbox = <<>>
    /\ emitted = <<>>
    /\ plast = NoPollerCall

PollerInit ==
    /\ poller = NewMessagePoller
    /\ loops = {}
    /\ inbox = <<>>
    /\ emitted = <<>>
    /\ plast = NoPollerCall

(* a Start that never refuses *)
StartRefused_Never == FALSE

(* MessagePoller.Start, "if mp.running" *)
StartRefused == poller.running

(* MessagePoller.Start, under mp.mutex *)
PollerStart ==
    /\ poller.launched < MaxStarts
    /\ IF StartRefused
       THEN /\ plast' = [op |-> "start", before |-> poller.running,
                         result |-> ErrAlreadyRunning]
            /\ UNCHANGED <<poller, loops>>
       ELSE /\ poller' = [poller EXCEPT !.running = TRUE, !.launched = poller.launched + 1]
            /\ loops' = loops \cup {[id |-> poller.launched + 1, period |-> poller.stops,
                                     pc |-> "select", got |-> <<>>, at |-> 0]}
            /\ plast' = [op |-> "start", before |-> poller.running, result |-> "ok"]
    /\ UNCHANGED <<inbox, emitted>>
    /\ UNCHANGED <<dvars, gvars, svars, rvars, wvars, nvars, yvars>>

(* MessagePoller.Stop, under mp.mutex *)
PollerStop ==
    /\ IF poller.running
       THEN poller' = [poller EXCEPT !.running = FALSE, !.ctxDone = TRUE,
                                     !.stops = poller.stops + 1]
       ELSE UNCHANGED poller
    /\ plast' = [op |-> "stop", before |-> poller.running, result |-> "ok"]
    /\ UNCHANGED <<loops, inbox, emitted>>
    /\ UNCHANGED <<dvars, gvars, svars, rvars, wvars, nvars, yvars>>

(* a message for the address arrives on the server: its timestamp is the    *)
(* second of its arrival                                                    *)
Arrive ==
    /\ Len(inbox) < MaxInbox
    /\ inbox' = Append(inbox, Unix(now))
    /\ UNCHANGED <<poller, loops, emitted, plast>>
    /\ UNCHANGED <<dvars, gvars, svars, rvars, wvars, nvars, yvars>>

(* pollLoop, the cases of its select that can be ready: the ticker fires    *)
(* every pollInterval, the context is done once it was cancelled            *)
PollSelect == {"tick"} \cup (IF poller.ctxDone THEN {"done"} ELSE {})

(* pollLoop, "case <-mp.ctx.Done(): return" *)
PollLoopExit(l) ==
    /\ l \in loops
    /\ l.pc = "select"
    /\ "done" \in PollSelect
    /\ loops' = loops \ {l}
    /\ UNCHANGED <<poller, inbox, emitted, plast>>
    /\ UNCHANGED <<dvars, gvars, svars, rvars, wvars, nvars, yvars>>

(* pollLoop, "case <-ticker.C", and pollMessages up to the answer of        *)
(* GetMessages: with an error pollMessages returns                          *)
PollFetch(l, ok) ==
    /\ l \in loops
    /\ l.pc = "select"
    /\ "tick" \in PollSelect
    /\ loops' = IF ok THEN (loops \ {l}) \cup
                               {[l EXCEPT !.pc = "fetched", !.got = inbox,
                                          !.at = IF poller.timed THEN now ELSE 0]}
                ELSE loops
    /\ UNCHANGED <<poller, inbox, emitted, plast>>
    /\ UNCHANGED <<dvars, gvars, svars, rvars, wvars, nvars, yvars>>

(* pollMessages, "if msg.Timestamp > mp.lastPollTime.Unix()": the places in *)
(* the answer of the messages that are new                                  *)
RECURSIVE NewMessages(_, _)
NewMessages(got, i) ==
    IF i > Len(got) THEN <<>>
    ELSE (IF got[i] > Unix(poller.lastPollTime) THEN <<i>> ELSE <<>>)
             \o NewMessages(got, i + 1)

(* pollMessages after the answer: the new messages are filtered, the last   *)
(* poll time becomes the present, NotifyMessageReceived is called for each  *)
(* new message                                                              *)
pollMessages(l) ==
    /\ l \in loops
    /\ l.pc = "fetched"
    /\ poller' = [poller EXCEPT !.lastPollTime = now]
    /\ emitted' = emitted \o NewMessages(l.got, 1)
    /\ loops' = (loops \ {l}) \cup {[l EXCEPT !.pc = "select", !.got = <<>>, !.at = 0]}
    /\ UNCHANGED <<inbox, plast>>
    /\ UNCHANGED <<dvars, gvars, svars, rvars, wvars, nvars, yvars>>

PollerNext ==
    \/ PollerStart
    \/ PollerStop
    \/ Arrive
    \/ \E l \in loops : PollLoopExit(l)
    \/ \E l \in loops, ok \in BOOLEAN : PollFetch(l, ok)
    \/ \E l \in loops : pollMessages(l)
    \/ Tick

----------------------------------------------------------------------------
(* Cached resolver: src/unnamed/part_008 (package dns)                      *)
(*                                                                         *)
(* A cache entry is the server info with the instant it was stored and its  *)
(* TTL, in ticks.  The server info a resolution returns is whatever the      *)
(* TXT record of the domain says at that instant.                           *)

ServerInfos == {"s1", "s2"}

NoEntry == [info |-> "none", timestamp |-> 0, ttl |-> 0]

NoLookup == [domain |-> "none", before |-> NoEntry, resolved |-> FALSE, ok |-> FALSE,
             answer |-> "none", result |-> "none"]

(* NewCachedResolver, "if ttl == 0 { ttl = 5 * time.Minute }" *)
DefaultTTL == 5 * 60 * TicksPerSecond

(* the TTL of the entries of a resolver made with NewCachedResolver(ttl) *)
ConfiguredTTL(ttl) == IF ttl = 0 THEN DefaultTTL ELSE ttl

(* the TTL arguments resolvers are made with *)
TTLChoices == 0..MaxTTL

(* an entry that is returned whatever its age *)
Fresh_Always(entry) == TRUE

(* ResolveDomain, "time.Since(entry.Timestamp) < entry.TTL" *)
Fresh(entry) == now - entry.timestamp < entry.ttl

(* a resolver that is not used: NewCachedResolver with the TTL of DefaultConfig *)
ResolverIdle ==
    /\ cache = [d \in Domains |-> NoEntry]
    /\ defaultTTL = DefaultTTL
    /\ clast = NoLookup

(* NewCachedResolver: an empty cache *)
ResolverInit ==
    /\ cache = [d \in Domains |-> NoEntry]
    /\ \E ttl \in TTLChoices : defaultTTL = ConfiguredTTL(ttl)
    /\ clast = NoLookup

(* the variables of the other subsystems after the poller *)
ResolverOthers == <<hvars, zvars>>

(* CachedResolver.ResolveDomain: a fresh entry is returned; else an expired *)
(* entry is deleted, the domain is resolved, and the answer is stored with  *)
(* the default TTL unless the resolution failed                             *)
CachedResolveDomain(d, ok, info) ==
    /\ IF cache[d] # NoEntry /\ Fresh(cache[d])
       THEN /\ UNCHANGED cache
            /\ clast' = [clast EXCEPT !.domain = d, !.before = cache[d],
                                      !.resolved = FALSE, !.ok = FALSE, !.answer = "none",
                                      !.result = cache[d].info]
       ELSE /\ cache' = [cache EXCEPT ![d] =
                            IF ok THEN [info |-> info, timestamp |-> now, ttl |-> defaultTTL]
                            ELSE NoEntry]
            /\ clast' = [clast EXCEPT !.domain = d, !.before = cache[d],
                                      !.resolved = TRUE, !.ok = ok,
                                      !.answer = IF ok THEN info ELSE "none",
                                      !.result = IF ok THEN info ELSE "error"]
    /\ UNCHANGED defaultTTL
    /\ UNCHANGED <<dvars, gvars, svars, rvars, wvars, nvars, pvars>>
    /\ UNCHANGED ResolverOthers

ResolverNext ==
    \/ \E d \in Domains, ok \in BOOLEAN, info \in ServerInfos : CachedResolveDomain(d, ok, info)
    \/ Tick

----------------------------------------------------------------------------
(* Concurrent lookups on one cached resolver: src/unnamed/part_008          *)
(*                                                                         *)
(* CachedResolver has no mutex: ResolveDomain reads, deletes from and       *)
(* writes to the map cr.cache as the calling goroutine gets there.  A call  *)
(* is followed through its accesses to the map, each of which takes time:   *)
(* "check" inside the read of the entry, "delete" inside the removal of an  *)
(* expired entry, "resolve" inside the DNS resolution (no access), "store"  *)
(* inside the write of the new entry.  A write to a Go map that overlaps    *)
(* another access to it is a data race: the runtime may end the program     *)
(* ("fatal error: concurrent map writes"), or the accesses go through in    *)
(* some order.                                                              *)

(* the goroutines that call ResolveDomain on the resolver *)
LookupCallers == {"r1", "r2"}

MapAccesses == {"check", "delete", "store"}
MapWrites == {"delete", "store"}

NoLookupCall == [pc |-> "idle", domain |-> "none", info |-> "none", at |-> 0]

(* no call is in progress *)
LookupsIdle ==
    lookups = [calls |-> [g \in LookupCallers |-> NoLookupCall], crashed |-> FALSE]

(* the access of one goroutine to the map overlaps a write of another *)
MapRace ==
    \E g, h \in LookupCallers :
        /\ g # h
        /\ lookups.calls[g].pc \in MapAccesses
        /\ lookups.calls[h].pc \in MapWrites

(* what the steps of a lookup leave alone *)
LookupOthers == <<defaultTTL, clast, hvars, evars, lvars, tvars>>

(* ResolveDomain is called: "if entry, exists := cr.cache[domain]" begins   *)
LookupEnter(g, d) ==
    /\ ~lookups.crashed
    /\ lookups.calls[g].pc = "idle"
    /\ lookups' = [lookups EXCEPT !.calls[g] = [NoLookupCall EXCEPT !.pc = "check",
                                                                    !.domain = d]]
    /\ UNCHANGED cache
    /\ UNCHANGED <<dvars, gvars, svars, rvars, wvars, nvars, pvars>>
    /\ UNCHANGED LookupOthers

(* the read of the entry is over: a fresh entry is returned, an expired one *)
(* is about to be deleted, without an entry the domain is resolved          *)
LookupChecked(g) ==
    LET call == lookups.calls[g]
        entry == cache[call.domain]
    IN  /\ ~lookups.crashed
        /\ call.pc = "check"
        /\ lookups' = [lookups EXCEPT !.calls[g] =
               IF entry # NoEntry /\ Fresh(entry)
               THEN NoLookupCall
               ELSE [call EXCEPT !.pc = IF entry # NoEntry THEN "delete" ELSE "resolve"]]
        /\ UNCHANGED cache
        /\ UNCHANGED <<dvars, gvars, svars, rvars, wvars, nvars, pvars>>
        /\ UNCHANGED LookupOthers

(* "delete(cr.cache, domain)" is over *)
LookupDeleted(g) ==
    LET call == lookups.calls[g]
    IN  /\ ~lookups.crashed
        /\ call.pc = "delete"
        /\ cache' = [cache EXCEPT ![call.domain] = NoEntry]
        /\ lookups' = [lookups EXCEPT !.calls[g].pc = "resolve"]
        /\ UNCHANGED <<dvars, gvars, svars, rvars, wvars, nvars, pvars>>
        /\ UNCHANGED LookupOthers

(* cr.resolver.ResolveDomain returns: with an error the call returns it,    *)
(* else the entry is made with time.Now() and its write to the map begins   *)
LookupResolved(g, ok, info) ==
    LET call == lookups.calls[g]
    IN  /\ ~lookups.crashed
        /\ call.pc = "resolve"
        /\ lookups' = [lookups EXCEPT !.calls[g] =
               IF ok THEN [call EXCEPT !.pc = "store", !.info = info, !.at = now]
               ELSE NoLookupCall]
        /\ UNCHANGED cache
        /\ UNCHANGED <<dvars, gvars, svars, rvars, wvars, nvars, pvars>>
        /\ UNCHANGED LookupOthers

(* "cr.cache[domain] = &CacheEntry{...}" is over and the call returns *)
LookupStored(g) ==
    LET call == lookups.calls[g]
    IN  /\ ~lookups.crashed
        /\ call.pc = "store"
        /\ cache' = [cache EXCEPT ![call.domain] =
                         [info |-> call.info, timestamp |-> call.at, ttl |-> defaultTTL]]
        /\ lookups' = [lookups EXCEPT !.calls[g] = NoLookupCall]
        /\ UNCHANGED <<dvars, gvars, svars, rvars, wvars, nvars, pvars>>
        /\ UNCHANGED LookupOthers

(* the runtime finds the map written while it is accessed and ends the      *)
(* program                                                                  *)
MapFault ==
    /\ ~lookups.crashed
    /\ MapRace
    /\ lookups' = [lookups EXCEPT !.crashed = TRUE]
    /\ UNCHANGED cache
    /\ UNCHANGED <<dvars, gvars, svars, rvars, wvars, nvars, pvars>>
    /\ UNCHANGED LookupOthers

ConcurrentLookupsNext ==
    \/ \E g \in LookupCallers, d \in Domains : LookupEnter(g, d)
    \/ \E g \in LookupCallers : LookupChecked(g)
    \/ \E g \in LookupCallers : LookupDeleted(g)
    \/ \E g \in LookupCallers, ok \in BOOLEAN, info \in ServerInfos : LookupResolved(g, ok, info)
    \/ \E g \in LookupCallers : LookupStored(g)
    \/ MapFault
    \/ Tick

----------------------------------------------------------------------------
(* Message encryption: src/message/message.go (Build, encryptMessage,       *)
(* DecryptBody), src/encryption/encryption.go                               *)
(*                                                                         *)
(* A key pair is named after its owner: the sender's is "sender", a         *)
(* recipient's is the recipient's address.  The key store of the sender's   *)
(* manager holds, for an address, the public key of that recipient or       *)
(* nothing.  box.Seal and box.Open work on the key shared by one side's     *)
(* private and the other side's public key.                                 *)

(* the variables of the subsystems after the message builder *)
EncryptionOthers == <<lvars, tvars, qvars>>

SenderKey == "sender"

NoKey == "none"

Bodies == {"", "hello"}

(* an EncryptedMessage that was not made *)
NoBox == [text |-> "", pub |-> NoKey, from |-> NoKey]

(* sequences over S of lengths lo..hi *)
SeqsOf(S, lo, hi) == UNION {[1..n -> S] : n \in lo..hi}

(* the key stores a manager can have: some recipients' keys are registered *)
KeyStores == {[r \in Recipients |-> IF r \in K THEN r ELSE NoKey] : K \in SUBSET Recipients}

(* EncryptionKeyPair.Encrypt, box.Seal: EncryptedMessage of the message for *)
(* the holder of recipientPublicKey, with the public key of the key pair    *)
Encrypt(keyPair, message, recipientPublicKey) ==
    [text |-> message, pub |-> recipientPublicKey, from |-> keyPair]

(* EncryptionKeyPair.Decrypt, box.Open with encMsg.PublicKey and the        *)
(* private key of the key pair: succeeds on the key the box was sealed with *)
Decrypt(keyPair, encMsg) ==
    IF encMsg # NoBox /\ encMsg.pub = keyPair
    THEN [ok |-> TRUE, text |-> encMsg.text]
    ELSE [ok |-> FALSE, text |-> ""]

(* EncryptionManager.CanEncryptFor *)
CanEncryptFor(store, recipientAddress) == store[recipientAddress] # NoKey

(* encryptMessage, "allRecipients := append(mb.message.To, mb.message.CC...)" *)
AllRecipients(msg) == msg.to \o msg.cc

(* encryptMessage, "EncryptForRecipient(..., allRecipients[0])": the key    *)
(* the body is sealed for                                                   *)
SealedFor(store, msg) == store[AllRecipients(msg)[1]]

(* MessageBuilder.encryptMessage: the message it leaves *)
encryptMessage(store, msg) ==
    LET all == AllRecipients(msg)
    IN  IF \E i \in 1..Len(all) : ~CanEncryptFor(store, all[i])
        THEN msg
        ELSE IF Len(all) > 0
             THEN [msg EXCEPT !.sealed = Encrypt(SenderKey, msg.body, SealedFor(store, msg)),
                              !.body = "json",
                              !.encrypted = TRUE,
                              !.encryptionKey = SenderKey]
             ELSE msg

(* MessageBuilder.validate, for addresses that are well-formed *)
validate(msg) == Len(msg.to) > 0 /\ msg.body # ""

(* NewMessageBuilder with To, CC, Body and, when hasManager, WithEncryption *)
NewBuilder(to, cc, body, hasManager, store) ==
    [message |-> [to |-> to, cc |-> cc, body |-> body, sealed |-> NoBox,
                  encrypted |-> FALSE, encryptionKey |-> NoKey],
     plain |-> body, hasManager |-> hasManager, store |-> store, built |-> "no"]

NoOpen == [who |-> NoKey, ok |-> FALSE, text |-> ""]

(* no message is being built *)
EncryptionIdle ==
    /\ builder = NewBuilder(<<>>, <<>>, "", FALSE, [r \in Recipients |-> NoKey])
    /\ opened = NoOpen

EncryptionInit ==
    /\ builder \in {NewBuilder(to, cc, body, hasManager, store) :
                        to \in SeqsOf(Recipients, 0, MaxTo), cc \in SeqsOf(Recipients, 0, MaxCC),
                        body \in Bodies, hasManager \in BOOLEAN, store \in KeyStores}
    /\ opened = NoOpen

(* MessageBuilder.Build *)
Build ==
    /\ builder.built = "no"
    /\ LET msg == IF builder.hasManager /\ builder.message.body # ""
                  THEN encryptMessage(builder.store, builder.message)
                  ELSE builder.message
       IN  builder' = [builder EXCEPT !.message = msg,
                                      !.built = IF validate(msg) THEN "ok" ELSE "error"]
    /\ UNCHANGED opened
    /\ UNCHANGED <<dvars, gvars, svars, rvars, wvars, nvars, pvars, cvars, hvars>>
    /\ UNCHANGED EncryptionOthers

(* Message.DecryptBody by the manager of recipient r on the built message *)
DecryptBody(r) ==
    /\ builder.built = "ok"
    /\ opened' = IF ~builder.message.encrypted
                 THEN [who |-> r, ok |-> TRUE, text |-> builder.message.body]
                 ELSE LET d == Decrypt(r, builder.message.sealed)
                      IN  [who |-> r, ok |-> d.ok, text |-> d.text]
    /\ UNCHANGED builder
    /\ UNCHANGED <<dvars, gvars, svars, rvars, wvars, nvars, pvars, cvars, hvars>>
    /\ UNCHANGED EncryptionOthers

EncryptionNext ==
    \/ Build
    \/ \E r \in Recipients : DecryptBody(r)

----------------------------------------------------------------------------
(* The lock of a group: src/unnamed/part_007, Group.mutex (sync.RWMutex)    *)
(*                                                                         *)
(* Goroutines call AddMember, RemoveMember, ChangeRole and HasPermission    *)
(* on one group.  A call is a frame on the stack of its goroutine: it       *)
(* waits for the lock it takes first, holds it to its end and releases it   *)
(* on return (defer).  What the bodies check and change is in SpecGroups.   *)

Goroutines == {"t1", "t2", "t3"}

(* the variables of the subsystems after the lock of the group *)
GroupLockOthers == <<tvars, qvars>>

NoGoroutine == "none"

(* the methods that take g.mutex.Lock() and then call g.HasPermission *)
MemberOps == {"AddMember", "RemoveMember", "ChangeRole"}

(* the method that takes g.mutex.RLock() *)
ReaderOps == {"HasPermission"}

(* a call of fn at position pc: "wait" before its lock is granted, "check"  *)
(* with the lock before the permission check, "rest" after it               *)
Frame(fn, pc) == [fn |-> fn, pc |-> pc]

Top(t) == gstack[t][Len(gstack[t])]

(* a goroutine is blocked in g.mutex.Lock() *)
WriterWaiting ==
    \E t \in Goroutines :
        gstack[t] # <<>> /\ Top(t).fn \in MemberOps /\ Top(t).pc = "wait"

(* sync.RWMutex.Lock is granted: no writer and no reader holds the mutex *)
CanLock == gmutex.writer = NoGoroutine /\ gmutex.readers = 0

(* sync.RWMutex.RLock is granted: no writer holds the mutex and none is     *)
(* waiting for it; the mutex does not know who asks                         *)
CanRLock == gmutex.writer = NoGoroutine /\ ~WriterWaiting

(* a group nobody is calling *)
GroupLockInit ==
    /\ gmutex = [writer |-> NoGoroutine, readers |-> 0]
    /\ gstack = [t \in Goroutines |-> <<>>]

(* goroutine t calls a method of the group and comes to its first           *)
(* statement, g.mutex.Lock() or g.mutex.RLock()                             *)
GroupCallEnter(t, fn) ==
    /\ gstack[t] = <<>>
    /\ gstack' = [gstack EXCEPT ![t] = <<Frame(fn, "wait")>>]
    /\ UNCHANGED gmutex
    /\ UNCHANGED <<dvars, gvars, svars, rvars, wvars, nvars, pvars, cvars, hvars, evars>>
    /\ UNCHANGED GroupLockOthers

(* the lock the innermost call of t waits for is granted *)
GroupLockAcquire(t) ==
    /\ gstack[t] # <<>>
    /\ Top(t).pc = "wait"
    /\ IF Top(t).fn \in MemberOps
       THEN /\ CanLock
            /\ gmutex' = [gmutex EXCEPT !.writer = t]
            /\ gstack' = [gstack EXCEPT ![t][Len(gstack[t])].pc = "check"]
       ELSE /\ CanRLock
            /\ gmutex' = [gmutex EXCEPT !.readers = @ + 1]
            /\ gstack' = [gstack EXCEPT ![t][Len(gstack[t])].pc = "rest"]
    /\ UNCHANGED <<dvars, gvars, svars, rvars, wvars, nvars, pvars, cvars, hvars, evars>>
    /\ UNCHANGED GroupLockOthers

(* AddMember, RemoveMember, ChangeRole: "if !g.HasPermission(...)", called  *)
(* with the write lock held                                                 *)
CallHasPermission(t) ==
    /\ gstack[t] # <<>>
    /\ Top(t).fn \in MemberOps
    /\ Top(t).pc = "check"
    /\ gstack' = [gstack EXCEPT ![t] = Append(@, Frame("HasPermission", "wait"))]
    /\ UNCHANGED gmutex
    /\ UNCHANGED <<dvars, gvars, svars, rvars, wvars, nvars, pvars, cvars, hvars, evars>>
    /\ UNCHANGED GroupLockOthers

(* the innermost call of t comes to its end: the deferred Unlock or RUnlock *)
(* runs and the call returns, to the method that made it or to the caller   *)
GroupCallReturn(t) ==
    /\ gstack[t] # <<>>
    /\ Top(t).pc = "rest"
    /\ gmutex' = IF Top(t).fn \in MemberOps
                 THEN [gmutex EXCEPT !.writer = NoGoroutine]
                 ELSE [gmutex EXCEPT !.readers = @ - 1]
    /\ LET rest == SubSeq(gstack[t], 1, Len(gstack[t]) - 1)
       IN  gstack' = [gstack EXCEPT ![t] =
                         IF rest = <<>> THEN rest
                         ELSE [rest EXCEPT ![Len(rest)].pc = "rest"]]
    /\ UNCHANGED <<dvars, gvars, svars, rvars, wvars, nvars, pvars, cvars, hvars, evars>>
    /\ UNCHANGED GroupLockOthers

GroupLockNext ==
    \/ \E t \in Goroutines, fn \in MemberOps \cup ReaderOps : GroupCallEnter(t, fn)
    \/ \E t \in Goroutines : GroupLockAcquire(t)
    \/ \E t \in Goroutines : CallHasPermission(t)
    \/ \E t \in Goroutines : GroupCallReturn(t)

(* a goroutine that can take a step takes it in the end, and one that      *)
(* waits for the mutex gets it if the mutex is free again and again         *)
GroupLockFairness ==
    \A t \in Goroutines :
        /\ SF_vars(GroupLockAcquire(t))
        /\ WF_vars(CallHasPermission(t))
        /\ WF_vars(GroupCallReturn(t))

----------------------------------------------------------------------------
(* Specifications *)

(* a client that is not sending *)
ClientIdle ==
    /\ cfg = [keyPair |-> TRUE, tracking |-> TRUE, beforeSend |-> FALSE, afterSend |-> FALSE,
              notifications |-> FALSE, maxRetries |-> 0, retryOn429 |-> TRUE,
              retryOnTimeout |-> TRUE]
    /\ send = Idle
    /\ log = <<>>
    /\ result = NoResult

(* the subsystems other than tracker, groups and send at rest *)
(* the subsystems after the poller at rest *)
NoInstants == [on |-> FALSE, created |-> [m \in MsgIds |-> 0], due |-> [m \in MsgIds |-> 0]]

NoPending == [seq |-> 0, result |-> {}]

(* the instants of the tracker are not followed *)
HistoryIdle ==
    /\ sched = NoInstants
    /\ pend = NoPending

(* the subsystems after the transport's events at rest *)
AfterTraceIdle ==
    /\ LookupsIdle

(* the subsystems after the lock of the group at rest *)
AfterGroupLockIdle ==
    /\ TraceIdle
    /\ AfterTraceIdle

(* the subsystems after the message builder at rest *)
AfterEncryptionIdle ==
    /\ GroupLockInit
    /\ AfterGroupLockIdle

(* the subsystems after these at rest *)
AfterHistoryIdle ==
    /\ EncryptionIdle
    /\ AfterEncryptionIdle

(* the subsystems after the resolver at rest *)
AfterResolverIdle ==
    /\ HistoryIdle
    /\ AfterHistoryIdle

LaterIdle ==
    /\ ResolverIdle
    /\ AfterResolverIdle

OthersIdle ==
    /\ RetryIdle
    /\ TransportIdle
    /\ NotificationsIdle
    /\ PollerIdle
    /\ LaterIdle

DeliveryInit ==
    /\ TrackerInit
    /\ expirationTime \in ExpirationTimes
    /\ strategy = DefaultRetryStrategy
    /\ ManagerInit
    /\ ClientIdle
    /\ OthersIdle

SpecDelivery == DeliveryInit /\ [][DeliveryNext]_vars

(* a tracker whose receipts expire after a second, or after the 24 hours of *)
(* DefaultRetryStrategy; the instants of tracking and scheduling are        *)
(* followed                                                                 *)
PendingInit ==
    /\ TrackerInit
    /\ expirationTime \in {TicksPerSecond, DefaultExpirationTime}
    /\ strategy = DefaultRetryStrategy
    /\ ManagerInit
    /\ ClientIdle
    /\ RetryIdle
    /\ TransportIdle
    /\ NotificationsIdle
    /\ PollerIdle
    /\ ResolverIdle
    /\ sched = [NoInstants EXCEPT !.on = TRUE]
    /\ pend = NoPending
    /\ AfterHistoryIdle

SpecPendingRetries == PendingInit /\ [][PendingNext]_vars

(* a tracker made with a retry strategy of its caller's *)
ScheduleInit ==
    /\ TrackerInit
    /\ expirationTime = DefaultExpirationTime
    /\ strategy \in TrackerStrategies
    /\ ManagerInit
    /\ ClientIdle
    /\ OthersIdle

SpecRetrySchedule == ScheduleInit /\ [][ScheduleNext]_vars

GroupsInit ==
    /\ ManagerInit
    /\ TrackerInit
    /\ expirationTime = DefaultExpirationTime
    /\ strategy = DefaultRetryStrategy
    /\ ClientIdle
    /\ OthersIdle

SpecGroups == GroupsInit /\ [][GroupsNext]_vars

(* a client built from DefaultConfig with delivery tracking: the tracker    *)
(* has DefaultRetryStrategy, whose expiration time no send outlasts         *)
SendInit ==
    /\ ClientInit
    /\ TrackerInit
    /\ expirationTime = DefaultExpirationTime
    /\ strategy = DefaultRetryStrategy
    /\ ManagerInit
    /\ OthersIdle

SpecSend == SendInit /\ [][SendNext]_vars

(* the retry loop runs in the caller's goroutine: an attempt that is due is *)
(* made                                                                     *)
FairSpecSend == SpecSend /\ WF_vars(\E outcome \in HttpOutcomes : HttpAttempt(outcome))

(* the tracker, the groups and the send pipeline at rest *)
CoreIdle ==
    /\ TrackerInit
    /\ expirationTime = DefaultExpirationTime
    /\ strategy = DefaultRetryStrategy
    /\ ManagerInit
    /\ ClientIdle

RetryDelayInit ==
    /\ RetryInit
    /\ CoreIdle
    /\ TransportIdle
    /\ NotificationsIdle
    /\ PollerIdle
    /\ LaterIdle

SpecRetryDelay == RetryDelayInit /\ [][RetryNext]_vars

TransportSendInit ==
    /\ TransportInit(ReconnectOnOff, Backlogs)
    /\ CoreIdle
    /\ RetryIdle
    /\ NotificationsIdle
    /\ PollerIdle
    /\ LaterIdle

(* the transport with its send path: the read loops only fail, the          *)
(* processors and the ping loops do not run                                 *)
SpecTransportSend == TransportSendInit /\ [][TransportSendNext]_vars

TransportReceiveInit ==
    /\ TransportInit(ReconnectStrategies, {0})
    /\ CoreIdle
    /\ RetryIdle
    /\ NotificationsIdle
    /\ PollerIdle
    /\ LaterIdle

(* the transport with its receive path: nothing is sent *)
SpecTransportReceive == TransportReceiveInit /\ [][TransportReceiveNext]_vars

(* the transport with the calls and goroutines that decide whether it is    *)
(* connected: nothing is sent or received                                   *)
SpecConnection == TransportReceiveInit /\ [][ConnectionNext]_vars

TransportEventsInit ==
    /\ TransportInit(ReconnectOnOff, {0})
    /\ CoreIdle
    /\ RetryIdle
    /\ NotificationsIdle
    /\ PollerIdle
    /\ ResolverIdle
    /\ HistoryIdle
    /\ EncryptionIdle
    /\ GroupLockInit
    /\ wtrace = NoTrace(TRUE)
    /\ AfterTraceIdle

(* the same, with reconnect on or off, and the triggered events followed *)
SpecTransportEvents == TransportEventsInit /\ [][ConnectionNext]_vars

NotifyInit ==
    /\ NotificationsInit
    /\ CoreIdle
    /\ RetryIdle
    /\ TransportIdle
    /\ PollerIdle
    /\ LaterIdle

(* the notification manager dispatching an event to its handlers *)
SpecDispatch == NotifyInit /\ [][DispatchNext]_vars

(* the notification manager with its pool of asynchronous handlers *)
SpecWorkerPool == NotifyInit /\ [][WorkerPoolNext]_vars

MessagePollerInit ==
    /\ CoreIdle
    /\ PollerInit
    /\ RetryIdle
    /\ TransportIdle
    /\ NotificationsIdle
    /\ LaterIdle

(* the message poller with the server's inbox and the clock *)
SpecPoller == MessagePollerInit /\ [][PollerNext]_vars

PollArrivalsInit ==
    /\ CoreIdle
    /\ poller = [NewMessagePoller EXCEPT !.timed = TRUE]
    /\ loops = {}
    /\ inbox = <<>>
    /\ emitted = <<>>
    /\ plast = NoPollerCall
    /\ RetryIdle
    /\ TransportIdle
    /\ NotificationsIdle
    /\ LaterIdle

(* the same, with the instant of each fetch followed *)
SpecPollArrivals == PollArrivalsInit /\ [][PollerNext]_vars

CachedResolverInit ==
    /\ CoreIdle
    /\ RetryIdle
    /\ TransportIdle
    /\ NotificationsIdle
    /\ PollerIdle
    /\ ResolverInit
    /\ AfterResolverIdle

(* messages built with and without encryption, then opened by recipients *)
MessageEncryptionInit ==
    /\ CoreIdle
    /\ RetryIdle
    /\ TransportIdle
    /\ NotificationsIdle
    /\ PollerIdle
    /\ ResolverIdle
    /\ HistoryIdle
    /\ EncryptionInit
    /\ AfterEncryptionIdle

SpecEncryption == MessageEncryptionInit /\ [][EncryptionNext]_vars

(* goroutines calling the methods of one group *)
GroupLockSpecInit ==
    /\ CoreIdle
    /\ RetryIdle
    /\ TransportIdle
    /\ NotificationsIdle
    /\ PollerIdle
    /\ ResolverIdle
    /\ HistoryIdle
    /\ EncryptionIdle
    /\ GroupLockInit
    /\ AfterGroupLockIdle

FairSpecGroupLock == GroupLockSpecInit /\ [][GroupLockNext]_vars /\ GroupLockFairness

(* the cached resolver with the clock *)
SpecResolver == CachedResolverInit /\ [][ResolverNext]_vars

(* goroutines that share the resolver of a client look domains up *)
SpecConcurrentLookups == CachedResolverInit /\ [][ConcurrentLookupsNext]_vars

CallbacksInit ==
    /\ CoreIdle
    /\ OthersIdle

(* the delivery tracker with callbacks *)
SpecCallbacks == CallbacksInit /\ [][CallbacksNext]_vars

----------------------------------------------------------------------------
(* Delivery receipts: the state machine of update_status *)

(* C1: once a receipt's status is delivered, failed or expired, a later     *)
(* update_status call on that message id, whatever status it requests,      *)
(* leaves the status unchanged.                                             *)
C1_TerminalStatusIsFinal ==
    (dlast.op = "update" /\ IsTerminal(dlast.old)) =>
        receipts[dlast.id].status = dlast.old

(* the transitions the state machine lists *)
NonTerminal == {StatusPending, StatusSent, StatusRetrying}

ListedTransitions ==
    {<<StatusPending, StatusSent>>, <<StatusSent, StatusDelivered>>,
     <<StatusPending, StatusFailed>>, <<StatusSent, StatusRetrying>>,
     <<StatusRetrying, StatusSent>>, <<StatusRetrying, StatusFailed>>}
    \cup {<<s, StatusExpired>> : s \in NonTerminal}

(* C2: update_status changes a receipt's status only along the listed       *)
(* transitions; a request for any other transition does not change the      *)
(* status.                                                                  *)
C2_OnlyListedTransitions ==
    (dlast.op = "update" /\ dlast.old \in DeliveryStatus) =>
        \/ receipts[dlast.id].status = dlast.old
        \/ <<dlast.old, receipts[dlast.id].status>> \in ListedTransitions

----------------------------------------------------------------------------
(* Groups: owner, hierarchy, member limit, permissions *)

Owners(g) == {a \in Addresses : g.members[a] = RoleOwner}

PermissionOf(op) ==
    CASE op = "add" -> PermissionAddMember
      [] op = "remove" -> PermissionRemoveMember
      [] op = "change" -> PermissionChangeRole
      [] OTHER -> PermissionDeleteGroup

----------------------------------------------------------------------------
(* Send pipeline *)

LogIndex == 1..Len(log)

ReceiptEntry(status) == Entry("receipt", "none", status)

(* the i-th entry of the log is a contact with a domain that failed for     *)
(* good: a resolution error, or a failed POST that is not tried again       *)
FailedContact(i) ==
    \/ log[i].ev = "resolve" /\ log[i].out = "error"
    \/ /\ log[i].ev = "post" /\ log[i].out # "200"
       /\ (i = Len(log) => send.pc # "http")
       /\ (i < Len(log) => ~(log[i + 1].ev = "post" /\ log[i + 1].d = log[i].d))

(* the error SendMessage returns for the failed contact e *)
DomainErrorText(e) ==
    "failed to send message to domain " \o e.d \o ": " \o
        (IF e.ev = "resolve" THEN "failed to resolve domain " \o e.d
         ELSE IF e.out \in {"timeout", "refused"} THEN "HTTP request failed: " \o e.out
         ELSE "HTTP request failed with status " \o e.out \o ": body")

(* C7: with delivery tracking, when resolution or the HTTP request (after   *)
(* its retries) fails for a domain, send contacts no further domain,        *)
(* returns that error, the receipt ends failed with the error text stored;  *)
(* after_send is not called and message_sent is not emitted.                *)
C7_DomainErrorAbortsSend ==
    cfg.tracking =>
        \A i \in LogIndex : FailedContact(i) =>
            /\ Len(log) = i + 1
            /\ log[i + 1] = ReceiptEntry(StatusFailed)
            /\ send.pc = "idle"
            /\ result = Failure("domain", DomainErrorText(log[i]))
            /\ receipts[send.msg].status = StatusFailed
            /\ receipts[send.msg].errorMessage = result.text
            /\ \A j \in LogIndex : log[j].ev \notin {"after_send", "message_sent"}

(* the POST to the first of two domains fails after a retry *)
C7_Witness ==
    /\ cfg.tracking /\ cfg.afterSend /\ cfg.notifications
    /\ send.pc = "idle"
    /\ result.kind = "domain"
    /\ Cardinality(send.remaining) = 2
    /\ Len(log) >= 3
    /\ log[Len(log) - 1].ev = "post"
    /\ log[Len(log) - 2].ev = "post"
    /\ receipts[send.msg].status = StatusFailed

(* the place of an entry among the three closing steps of a send, 0 for    *)
(* any other entry                                                          *)
FinalRank(e) ==
    CASE e = ReceiptEntry(StatusSent) -> 1
      [] e.ev = "after_send" -> 2
      [] e.ev = "message_sent" -> 3
      [] OTHER -> 0

(* C8: send marks the receipt sent, calls after_send and emits message_sent *)
(* only after the POST has succeeded for every distinct domain in to and    *)
(* cc, in that order; an error from after_send does not make send fail.     *)
C8_SentOnlyAfterAllDomains ==
    /\ \A i \in LogIndex :
          (log[i] = ReceiptEntry(StatusSent) \/ log[i].ev \in {"after_send", "message_sent"}) =>
              \A r \in send.rcpts :
                  \E j \in 1..(i - 1) : log[j] = Entry("post", ExtractDomain(r), "200")
    /\ \A i, j \in LogIndex :
          (FinalRank(log[i]) > 0 /\ FinalRank(log[i]) < FinalRank(log[j])) => i < j
    /\ \A i \in LogIndex :
          (log[i].ev = "after_send" /\ log[i].out = "error") =>
              (send.pc = "idle" /\ result = Success)

(* a send to two domains goes through although after_send returns an error *)
C8_Witness ==
    /\ cfg.tracking /\ cfg.afterSend /\ cfg.notifications
    /\ send.pc = "idle"
    /\ result = Success
    /\ {ExtractDomain(r) : r \in send.rcpts} = Domains
    /\ \E i \in LogIndex : log[i].ev = "after_send" /\ log[i].out = "error"
    /\ log[Len(log)].ev = "message_sent"
    /\ receipts[send.msg].status = StatusSent

(* C9: send first inserts a pending receipt; if the before_send hook then   *)
(* returns an error, send returns an error, the receipt is marked failed    *)
(* and no signing, DNS resolution or HTTP request is made for the message.  *)
C9_BeforeSendErrorAborts ==
    /\ (cfg.tracking /\ log # <<>>) => log[1] = Entry("track", "none", StatusPending)
    /\ \A i \in LogIndex :
          (log[i].ev = "before_send" /\ log[i].out = "error") =>
              /\ send.pc = "idle"
              /\ result.kind = "before_send" /\ ~result.ok
              /\ \A j \in LogIndex : log[j].ev \notin {"sign", "resolve", "post"}
              /\ cfg.tracking =>
                    /\ log = <<Entry("track", "none", StatusPending), log[i],
                               ReceiptEntry(StatusFailed)>>
                    /\ receipts[send.msg].status = StatusFailed

(* the hook of a tracking client has turned a valid message down *)
C9_Witness ==
    /\ cfg.tracking /\ cfg.beforeSend
    /\ send.pc = "idle"
    /\ result.kind = "before_send"
    /\ Len(log) = 3
    /\ log[2] = Entry("before_send", "none", "error")
    /\ receipts[send.msg].status = StatusFailed

(* the POST entries of the log for domain d *)
Posts(d) == {i \in LogIndex : log[i].ev = "post" /\ log[i].d = d}

(* at most max_retries+1 attempts, none after a 2xx, and the error of the   *)
(* last attempt returned once the attempts are used up                      *)
AttemptsBounded ==
    \A d \in Domains :
        /\ Cardinality(Posts(d)) <= cfg.maxRetries + 1
        /\ \A i, j \in Posts(d) : (log[i].out = "200" /\ i # j) => j < i
        /\ \A i \in Posts(d) :
              (/\ Cardinality(Posts(d)) = cfg.maxRetries + 1
               /\ \A j \in Posts(d) : j <= i
               /\ log[i].out # "200") =>
                  /\ send.pc = "idle"
                  /\ result = Failure("domain", DomainErrorText(log[i]))

(* C10: for each HTTP request the client makes at most max_retries+1        *)
(* attempts, stops at the first 2xx response, and returns the final error   *)
(* once the attempts are exhausted; the retry loop always terminates.       *)
C10_RetryLoopBounded ==
    /\ []AttemptsBounded
    /\ (send.pc = "http") ~> (send.pc # "http")

(* all max_retries+1 attempts of a request were made, with retries, and the *)
(* last one failed                                                          *)
C10_Witness ==
    /\ cfg.maxRetries >= 1
    /\ send.pc = "idle"
    /\ result.kind = "domain"
    /\ \E d \in Domains :
          /\ Cardinality(Posts(d)) = cfg.maxRetries + 1
          /\ \A i \in Posts(d) : log[i].out # "200"

(* the POST after entry i in the log goes to the same domain: the attempt   *)
(* of entry i was retried                                                   *)
Retried(i) ==
    /\ i < Len(log)
    /\ log[i + 1].ev = "post"
    /\ log[i + 1].d = log[i].d

(* the failures the retry strategy asks to try again *)
Retryable(out) ==
    \/ (out = "timeout" /\ cfg.retryOnTimeout)
    \/ (out = "429" /\ cfg.retryOn429)

(* C11: a failed HTTP attempt is retried only when the error is a timeout   *)
(* and retry_on_timeout is set, or the status is 429 and retry_on_429 is    *)
(* set; any other 4xx/5xx response or non-timeout error ends the request    *)
(* after that single attempt, with the response body as the error message.  *)
C11_RetryOnlyTimeoutOr429 ==
    \A i \in LogIndex :
        (log[i].ev = "post" /\ log[i].out # "200") =>
            /\ Retried(i) => Retryable(log[i].out)
            /\ ~Retryable(log[i].out) =>
                  /\ send.pc = "idle"
                  /\ \A j \in LogIndex : j > i => log[j].ev # "post"
                  /\ result = Failure("domain", DomainErrorText(log[i]))
                  /\ (log[i].out \in {"429", "500"}) =>
                        result.text = "failed to send message to domain " \o log[i].d
                                        \o ": HTTP request failed with status "
                                        \o log[i].out \o ": body"

(* with retries left and both retry flags set, a 429 was tried again and    *)
(* the 500 that came next ended the request                                 *)
C11_Witness ==
    /\ cfg.retryOn429 /\ cfg.retryOnTimeout
    /\ cfg.maxRetries >= 2
    /\ send.pc = "idle"
    /\ \E i \in LogIndex :
          /\ i < Len(log)
          /\ log[i].ev = "post" /\ log[i].out = "429"
          /\ log[i + 1].ev = "post" /\ log[i + 1].out = "500"
          /\ log[i + 1].d = log[i].d
    /\ result.kind = "domain"

----------------------------------------------------------------------------
(* HTTP retry delays *)

(* the delays of the strategy initial_delay=1s, backoff_factor=2.0,         *)
(* max_delay=10s for attempts 0..4                                          *)
ExampleDelays == <<1, 2, 4, 8, 10>>

(* C12: the delay before HTTP retry attempt n is min(initial_delay *        *)
(* backoff_factor^n, max_delay): with initial_delay=1s, backoff_factor=2.0  *)
(* and max_delay=10s the delays for attempts 0..4 are 1s, 2s, 4s, 8s, 10s,  *)
(* and no delay ever exceeds max_delay.                                     *)
C12_DelayIsCappedBackoff ==
    /\ \A i \in 1..Len(retry.slept) :
          LET st == retry.strategy
              grown == st.initialDelay * Pow(st.backoffFactor, i - 1)
          IN  /\ retry.slept[i] <= st.maxDelay
              /\ retry.slept[i] <= grown
              /\ retry.slept[i] \in {grown, st.maxDelay}
    /\ (/\ retry.strategy.initialDelay = 1
        /\ retry.strategy.backoffFactor = 2
        /\ retry.strategy.maxDelay = 10) =>
          \A i \in 1..Len(retry.slept) : i <= 5 => retry.slept[i] = ExampleDelays[i]

(* the strategy of the example has waited before attempts 0..4 *)
C12_Witness ==
    /\ retry.strategy.initialDelay = 1
    /\ retry.strategy.backoffFactor = 2
    /\ retry.strategy.maxDelay = 10
    /\ Len(retry.slept) = 5
    /\ retry.slept[5] = 10

----------------------------------------------------------------------------
(* Transport *)

(* C13: the transport's send queue never holds more than 100 frames; send   *)
(* on a connected transport whose queue is full returns a buffer-full error *)
(* immediately, without blocking and without enqueuing the frame.           *)
C13_SendQueueBounded ==
    /\ Len(sendChan) <= 100
    /\ (wlast.op = "send" /\ wlast.before /\ wlast.full) =>
          wlast.result = "send buffer full"

(* the connection on which SendMessage accepted frame f *)
AcceptedOn(f) == IF f <= ws.base THEN 1 ELSE ws.accepted[f - ws.base]

(* C14: within a single connection, frames accepted by send are transmitted *)
(* to the server in the order they were enqueued, and frames received from  *)
(* the server are dispatched to the notification bus in the order they were *)
(* received.                                                                *)
C14_FramesInOrder ==
    /\ \A i, j \in 1..Len(wire) :
          (/\ i < j
           /\ wire[i].conn = wire[j].conn
           /\ AcceptedOn(wire[i].frame) = wire[i].conn
           /\ AcceptedOn(wire[j].frame) = wire[j].conn) =>
              wire[i].frame < wire[j].frame
    /\ \A i, j \in 1..Len(dispatched) :
          (i < j /\ ws.heard[dispatched[i]] = ws.heard[dispatched[j]]) =>
              dispatched[i] < dispatched[j]

(* C15: after a read failure with reconnect enabled, the transport keeps    *)
(* making reconnect attempts until one succeeds or max_retries attempts     *)
(* have been made; it neither gives up before max_retries attempts without  *)
(* a success nor makes more than max_retries attempts.                      *)
C15_ReconnectUntilMaxRetries ==
    /\ ws.reconnect.made <= ws.strategy.maxRetries
    /\ (ws.reconnect.done /\ ~ws.connected) =>
          ws.reconnect.made = ws.strategy.maxRetries

(* the loops that are running, by kind and connection *)
LoopsRunning == {<<t.kind, t.gen>> : t \in {u \in tasks : u.kind \in LoopKinds}}

----------------------------------------------------------------------------
(* Notification manager *)

(* the sequence s is the beginning of the sequence t *)
IsPrefix(s, t) == Len(s) <= Len(t) /\ \A i \in 1..Len(s) : s[i] = t[i]

(* handlers are numbered as they are registered: the list is in the order   *)
(* of registration                                                          *)
InRegistrationOrder(s) == \A i, j \in 1..Len(s) : i < j => s[i] < s[j]

(* an asynchronous handler of the call has begun to execute *)
AsyncBegun(c) ==
    \/ ncalls[c].started # {}
    \/ \E t \in atasks : t.call = c /\ t.st = "running"

(* C17: within one Notify call the synchronous handlers of the event are    *)
(* invoked one after the other in the order they were registered (the       *)
(* handlers invoked so far are always the first ones of the registered      *)
(* list), and an asynchronous handler of the call begins only when the call *)
(* has passed its last synchronous handler, all of them having returned.    *)
C17_SyncInOrderBeforeAsync ==
    \A c \in 1..Len(ncalls) :
        /\ InRegistrationOrder(nm.handlers[ncalls[c].event])
        /\ IsPrefix(ncalls[c].ran, nm.handlers[ncalls[c].event])
        /\ IsPrefix(ncalls[c].sync, nm.handlers[ncalls[c].event])
        /\ AsyncBegun(c) =>
              /\ ncalls[c].pc = "done"
              /\ ncalls[c].ran = ncalls[c].sync
              /\ ncalls[c].failedAt = 0

(* a call has invoked two synchronous handlers and then begun an            *)
(* asynchronous one                                                         *)
C17_Witness ==
    \E c \in 1..Len(ncalls) :
        /\ Len(ncalls[c].ran) = 2
        /\ ncalls[c].started # {}

(* C18: when a synchronous handler returns an error, Notify returns an      *)
(* error, the failing handler is the last synchronous handler the call      *)
(* invokes, and no asynchronous handler of the call is started or run.      *)
C18_SyncErrorStopsNotify ==
    \A c \in 1..Len(ncalls) :
        ncalls[c].failedAt # 0 =>
            /\ ncalls[c].pc = "done"
            /\ ncalls[c].result = "error"
            /\ Len(ncalls[c].ran) = ncalls[c].failedAt
            /\ ncalls[c].started = {}
            /\ ~\E t \in atasks : t.call = c

(* the first of two synchronous handlers failed, an asynchronous handler    *)
(* was registered for the event                                             *)
C18_Witness ==
    \E c \in 1..Len(ncalls) :
        /\ ncalls[c].failedAt = 1
        /\ Len(ncalls[c].sync) = 2
        /\ Len(ncalls[c].async) >= 1
        /\ ncalls[c].result = "error"

(* the asynchronous handlers that are executing *)
Executing == {t \in atasks : t.st = "running"}

(* C19: the number of asynchronous handlers executing, whatever event and   *)
(* Notify call they belong to, never exceeds maxConcurrentHandlers.         *)
C19_AsyncHandlersBounded == Cardinality(Executing) <= nm.capacity

(* the pool is full while a handler of another Notify call waits for a slot *)
C19_Witness ==
    /\ Cardinality(Executing) = nm.capacity
    /\ \E t \in atasks, u \in Executing : t.st = "waiting" /\ t.call # u.call

----------------------------------------------------------------------------
(* Message poller *)

(* the polling loops launched since the last Stop that took effect *)
ActiveLoops == {l.id : l \in {k \in loops : k.period = poller.stops}}

----------------------------------------------------------------------------
(* Cached resolver *)

(* C21: a lookup that finds an entry stored less than its TTL ago returns   *)
(* the info of that entry without resolving and leaves the cache as it was; *)
(* a lookup that finds no entry, or one as old as its TTL or older,         *)
(* resolves, and the cache then holds the answer with the present instant   *)
(* and the default TTL if the resolution succeeded, and no entry for the    *)
(* domain if it failed.                                                     *)
C21_CachedLookup ==
    [][(clast' # clast \/ cache' # cache) =>
          LET d == clast'.domain
              e == cache[d]
          IN  IF e # NoEntry /\ now - e.timestamp < e.ttl
              THEN /\ ~clast'.resolved
                   /\ clast'.result = e.info
                   /\ cache' = cache
              ELSE /\ clast'.resolved
                   /\ IF clast'.ok
                      THEN /\ clast'.result = clast'.answer
                           /\ cache' = [cache EXCEPT ![d] =
                                  [info |-> clast'.answer, timestamp |-> now,
                                   ttl |-> defaultTTL]]
                      ELSE /\ clast'.result = "error"
                           /\ cache' = [cache EXCEPT ![d] = NoEntry]]_vars

(* a lookup was answered from an entry that was stored after the clock had  *)
(* advanced and has aged since                                              *)
C21_Witness ==
    /\ clast.domain \in Domains
    /\ ~clast.resolved
    /\ 0 < clast.before.timestamp
    /\ clast.before.timestamp < now
    /\ clast.result = clast.before.info

----------------------------------------------------------------------------
(* Delivery callbacks *)

(* how often callback c occurs in the sequence q *)
Occurrences(q, c) == Cardinality({i \in 1..Len(q) : q[i] = c})

(* C22: once an update that changed the status has gone through its         *)
(* callbacks, each callback that was registered for the message id or for   *)
(* all messages when the update was made has been started exactly once, in  *)
(* a goroutine of its own, and no other; a callback that panics ends only   *)
(* its own goroutine.                                                       *)
C22_EachCallbackOnce ==
    /\ trigger.pc # "crashed"
    /\ (trigger.pc = "done" /\ trigger.id \in MsgIds) =>
          \A c \in 1..MaxCallbacks :
              Occurrences(trigger.launched, c) = Occurrences(trigger.expected, c)

----------------------------------------------------------------------------
(* Attempt count *)

(* C23: the attempt count of a receipt is 0 when TrackMessage has stored    *)
(* it; an update that requests sent or retrying leaves it one higher than   *)
(* it was, an update that requests any other status leaves it as it was.    *)
C23_AttemptCount ==
    /\ dlast.op = "track" => receipts[dlast.id].attemptCount = 0
    /\ (dlast.op = "update" /\ dlast.old \in DeliveryStatus) =>
          receipts[dlast.id].attemptCount =
              IF dlast.req \in {StatusSent, StatusRetrying}
              THEN dlast.oldCount + 1
              ELSE dlast.oldCount

(* a retrying receipt with two attempts was updated to failed and still    *)
(* has the two                                                              *)
C23_Witness ==
    /\ dlast.op = "update"
    /\ dlast.req = StatusFailed
    /\ dlast.old = StatusRetrying
    /\ dlast.oldCount = 2
    /\ receipts[dlast.id].attemptCount = 2

----------------------------------------------------------------------------
(* Pending retries *)

(* what a GetPendingRetries call at the present instant is to return: the   *)
(* receipts in retrying whose next attempt is due, that have attempts left  *)
(* and whose age since tracking does not exceed the expiration time         *)
DuePending ==
    {m \in MsgIds :
        /\ receipts[m].status = StatusRetrying
        /\ sched.due[m] <= now
        /\ receipts[m].attemptCount < DeliveryMaxRetries
        /\ now - sched.created[m] <= expirationTime}

(* C24: GetPendingRetries returns exactly the receipts whose status is      *)
(* retrying, whose next attempt is at or before now, whose attempt count is *)
(* below the maximum and which are not past the expiration time.            *)
C24_PendingRetriesExact ==
    [][pend' # pend => pend'.result = DuePending]_vars

----------------------------------------------------------------------------
(* Encryption for every recipient *)

(* the recipients of the built message *)
BuiltRecipients ==
    {AllRecipients(builder.message)[i] : i \in 1..Len(AllRecipients(builder.message))}

(* C25: when a message built with encryption enabled has come out           *)
(* encrypted, each recipient in to and cc who opens it with the own         *)
(* private key gets the body the sender wrote.                              *)
C25_EveryRecipientDecrypts ==
    (/\ builder.built = "ok"
     /\ builder.message.encrypted
     /\ opened.who \in BuiltRecipients)
        => (opened.ok /\ opened.text = builder.plain)

----------------------------------------------------------------------------
(* The lock of a group *)

(* C26: a goroutine that has called AddMember, RemoveMember or ChangeRole   *)
(* gets out of the call: the call, with the permission check it makes       *)
(* while it holds the write lock of the group, returns in the end.          *)
C26_MemberCallsReturn ==
    \A t \in Goroutines :
        (gstack[t] # <<>> /\ gstack[t][1].fn \in MemberOps) ~> (gstack[t] = <<>>)

----------------------------------------------------------------------------
(* Transport: disconnect, reconnect and events *)

(* the places of the trace where event e was triggered for connection g *)
Places(e, g) == {i \in 1..Len(wtrace.events) : wtrace.events[i] = Event(e, g)}

(* C27: once Disconnect has returned without error the transport is not     *)
(* connected until Connect is called again, and for a connection that the   *)
(* peer did not close no reconnecting event follows the disconnected event  *)
(* of its Disconnect: the disconnect starts no reconnect.                   *)
C27_DisconnectStartsNoReconnect ==
    /\ (wlast.op = "disconnect" /\ wlast.result = "ok") => ~ws.connected
    /\ \A g \in 1..ws.gens :
          g \notin wtrace.lost =>
              \A i \in Places("disconnected", g), j \in Places("reconnecting", g) : j < i

(* C28: while the transport says it is connected, on a connection that is   *)
(* open, the read loop, the write loop, the ping loop and the message       *)
(* processor of that connection are running; so also after a Connect that   *)
(* follows a Disconnect.                                                    *)
C28_ConnectedMeansLoopsRun ==
    (ws.connected /\ ws.conn \notin ws.closed) =>
        \A k \in LoopKinds : \E t \in tasks : t.kind = k /\ t.gen = ws.conn

(* C29: a reconnecting event for a connection that the peer closed comes    *)
(* after a disconnected event for that connection.                          *)
C29_DisconnectedBeforeReconnecting ==
    \A g \in wtrace.lost :
        \A j \in Places("reconnecting", g) :
            \E i \in Places("disconnected", g) : i < j

----------------------------------------------------------------------------
(* Messages that arrive during a poll *)

(* C30: when a poll updates the last poll time, a message that arrived on   *)
(* the server after the fetch of that poll, in a later second than the      *)
(* fetch, is still newer than the last poll time: the last poll time does   *)
(* not pass the instant the poll began, and a later poll takes the message  *)
(* for new.                                                                 *)
C30_ArrivedDuringPollNotLost ==
    [][\A l \in loops :
          (l.pc = "fetched" /\ l \notin loops') =>
              \A k \in (Len(l.got) + 1)..Len(inbox) :
                  inbox[k] > Unix(l.at) => inbox[k] > Unix(poller'.lastPollTime)]_vars

----------------------------------------------------------------------------
(* A poller that is started again *)

(* C31: whenever the poller says it is running, a polling loop exists that  *)
(* goes on fetching; so also after a Start that follows a Stop.             *)
C31_RunningMeansLoopActive == poller.running => loops # {}

----------------------------------------------------------------------------
(* Failed sends and their receipts *)

(* C32: when SendMessage has returned an error after the receipt of the     *)
(* message was inserted (any error but the missing key pair, on a client    *)
(* with delivery tracking), the status of the receipt is failed: no failed  *)
(* send leaves its receipt pending.                                         *)
C32_FailedSendMarksReceiptFailed ==
    (/\ cfg.tracking
     /\ send.pc = "idle"
     /\ ~result.ok
     /\ result.kind \notin {"none", "key"})
        => receipts[send.msg].status = StatusFailed

----------------------------------------------------------------------------
(* Tracking a message that already has a receipt *)

(* C33: TrackMessage for a message id that already has a receipt keeps that *)
(* receipt: a terminal status stays as it was, not pending again, and the   *)
(* attempt count stays as it was, not 0 again.                              *)
C33_TrackKeepsExistingReceipt ==
    (dlast.op = "track" /\ dlast.old # NoReceipt.status) =>
        /\ IsTerminal(dlast.old) => receipts[dlast.id].status = dlast.old
        /\ receipts[dlast.id].attemptCount = dlast.oldCount

----------------------------------------------------------------------------
(* The role a new member is given *)

----------------------------------------------------------------------------
(* Role changes *)

----------------------------------------------------------------------------
(* The next attempt of a retry *)

(* the delay of the given attempt: initial_delay times backoff_factor to    *)
(* the power attempt_count - 1, at most max_delay                           *)
BackoffDelay(attemptCount) ==
    LET d == strategy.initialDelay * Pow(strategy.backoffFactor, attemptCount - 1)
    IN  CHOOSE x \in {d, strategy.maxDelay} : x <= d /\ x <= strategy.maxDelay

----------------------------------------------------------------------------
(* Receipts that have outlived the expiration time *)

(* C37: an update of a receipt that is not terminal, made when more than    *)
(* the expiration time has passed since the receipt was created, leaves     *)
(* the receipt expired, whatever status the update asks for.                *)
C37_OldReceiptExpires ==
    [][(/\ dlast'.op = "update"
        /\ now' = now
        /\ pend' = pend
        /\ receipts[dlast'.id].status \in NonTerminal
        /\ now - sched.created[dlast'.id] > expirationTime)
       => receipts'[dlast'.id].status = StatusExpired]_vars

----------------------------------------------------------------------------
(* Asynchronous handlers under overload and at shutdown *)

(* the invocations that wait for a slot and have no step to take: the pool  *)
(* is full and the manager is not shut down                                 *)
HeldBack == {t \in atasks : t.st = "waiting" /\ AsyncSelect = {}}

(* C38: an asynchronous invocation that finds the pool full is skipped, not *)
(* kept: no invocation is held back waiting for a slot, so the outstanding  *)
(* invocations are the executing ones, at most max_concurrent_handlers, and *)
(* those that have yet to look at the pool, however many events were        *)
(* notified.                                                                *)
C38_OverloadSkips == HeldBack = {}

(* C39: once Shutdown was called no asynchronous invocation that had not    *)
(* taken a slot begins to execute, and an invocation that is executing      *)
(* leaves only by the return of its handler, which gives its slot back.     *)
C39_NoHandlerBeginsAfterShutdown ==
    [][/\ nm.ctxDone =>
             \A t \in atasks' : t.st = "running" => t \in atasks
       /\ \A t \in atasks :
             (t.st = "running" /\ t \notin atasks') => nm'.workerPool = nm.workerPool - 1]_vars

----------------------------------------------------------------------------
(* Concurrent lookups *)

(* C40: lookups of concurrent goroutines on one cached resolver never       *)
(* access the cache mapping at the same time when one of the accesses       *)
(* modifies it: the check, the removal of a stale entry and the insert of   *)
(* one lookup exclude the removal and the insert of every other, and no     *)
(* lookup ends in a fault of the mapping.                                   *)
C40_LookupsExcludeEachOther ==
    /\ \A g, h \in LookupCallers :
          (g # h /\ lookups.calls[h].pc \in {"delete", "store"}) =>
              lookups.calls[g].pc \notin {"check", "delete", "store"}
    /\ ~lookups.crashed

====
